---- MODULE Spec2Model ----
(***************************************************************************)
(* Model of pyext/src/analysis_trajectories.py (class AnalysisTrajectories) *)
(* The module holds one state machine per pipeline component:               *)
(*   SpecCtor    __init__ : the two-halves split of the directories         *)
(*   SpecExport  write_hdbscan_clustering, write_summary_hdbscan_clustering  *)
(*   SpecXL      check_XLs_ambiguity, analyze_trajectory_XLs,                *)
(*               get_XLs_satisfaction                                        *)
(*   SpecParse   get_restraint_fields, read_stats_detailed, read_traj_info,  *)
(*               hdbscan_clustering and the two writers it calls             *)
(*   SpecCombine hdbscan_clustering on the tables of several trajectories    *)
(*   SpecEquil   the equilibration loop of read_traj_info                    *)
(*   SpecConv    the convergence estimate of plot_scores_distributions       *)
(*   SpecPool    the process pools of read_stat_files, do_extract_models     *)
(*   SpecSchema  set_analyze_*, get_restraint_fields, the sum columns        *)
(* Every component owns its variables; a component's specification leaves   *)
(* the variables of the other components at their idle values.              *)
(***************************************************************************)
EXTENDS Integers, Sequences, FiniteSets, TLC

VARIABLES
    \* ---- __init__ (two objects built from two orderings of one list) ----
    out_dirs,       \* self.out_dirs of the object
    dir_halfA,      \* self.dir_halfA
    dir_halfB,      \* self.dir_halfB
    twin_out_dirs,  \* self.out_dirs of a second object, a reordering of out_dirs
    twin_halfA,     \* its dir_halfA
    twin_halfB,     \* its dir_halfB
    ctor_pc,        \* "new" -> "built" -> "twin_built"
    \* ---- write_hdbscan_clustering / write_summary_hdbscan_clustering ----
    S_comb,         \* the labelled combined table: <<cluster, half>> -> number of rows
    files,          \* the per-cluster files written: [kind, half, cluster, rows]
    summary,        \* rows of summary_hdbscan_clustering.dat
    warned,         \* the not-converged warning was printed
    export_pc,      \* "clustered" -> "written" -> "summarised"
    \* ---- analyze_trajectory_XLs / get_XLs_satisfaction ----
    xl_cfg,         \* the settings of set_analyze_XLs_restraint and XLs_cutoffs
    S_dist,         \* the distance table: frame -> (column name -> distance)
    XLs_satif,      \* [error, columns]: satisfaction column name -> fraction per frame
    ambiguous_XLs_dict, \* the mapping of check_XLs_ambiguity
    xl_pc,          \* "new" -> "ready" -> "done"
    \* ---- get_restraint_fields / read_stats_detailed / read_traj_info ----
    restraints,     \* the restraint flags of the object
    stat2_dict,     \* the header of the sample stat file: field id -> field name
    stat_files,     \* the stat.*.out files of the directory, in np.sort order
    out,            \* the directory given to read_traj_info
    fields,         \* what get_restraint_fields stores: names and field ids
    S_tot_scores,   \* the score table of the trajectory: [columns, rows]
    DF_XLs,         \* the distance table of the trajectory: [columns, rows]
    S_all,          \* directory -> trimmed score table
    S_dist_all,     \* directory -> trimmed distance table
    S_comb_all,     \* the combined table with its cluster column
    S_comb_dist,    \* the combined distance table with its cluster column
    skip,           \* the stride given to hdbscan_clustering
    skipped,        \* the warnings of read_stats_detailed: <<file, line number>>
    parse_pc        \* position in the pipeline, or the exception that ended it

\* The equilibration loop of read_traj_info.
VARIABLES
    eq_index,       \* the index of S_tot_scores: the labels of its rows
    sel_entries,    \* the columns evaluated
    ts_eq,          \* the equilibration index of the columns evaluated so far
    eq_given,       \* the labels of the rows each call of the detector was given
    eq_raised,      \* the columns the detector raised on
    eq_stored,      \* the labels of the rows of the stored table
    eq_pc

\* The convergence estimate of plot_scores_distributions.
VARIABLES
    RH1,            \* per subsample size: <<size, mean, std>> of the minima of half A
    RH2,            \* the same of half B
    n_conv,         \* the converged sample count returned
    conv_pc

\* The process pools of read_stat_files and do_extract_models.
VARIABLES
    job,            \* the method that runs the pool
    items,          \* self.out_dirs, or the rows of gsms_info
    nproc,          \* self.nproc
    pool_nuisances, \* self.XLs_restraint_nuisances
    out_dirs_dict,  \* the slice of every worker (df_array of do_extract_models)
    processes,      \* per worker: its state, the number of items it has done,
                    \* whether an exception ended it on the next item
    XLs_nuis,       \* self.XLs_nuis: the directory whose statistics a key holds
    scores,         \* self.scores
    saved,          \* the scores written by np.savetxt
    writes,         \* the writes to the shared mappings: <<mapping, key, worker>>
    pool_pc         \* the position of the parent process

\* The restraints chosen with set_analyze_* and the fields found for them.
VARIABLES
    opts,           \* the restraint flags of the object: attribute name -> bool
    ncalls,         \* the number of set_analyze_* calls made
    schema,         \* what get_restraint_fields left: [error, restraint_names, all_fields]
    score_table,    \* the score table of read_stats_detailed: [columns, rows]
    schema_pc       \* "new" -> "fields" -> "parsed", or the exception raised

ctorVars == <<out_dirs, dir_halfA, dir_halfB, twin_out_dirs, twin_halfA, twin_halfB, ctor_pc>>

exportVars == <<S_comb, files, summary, warned, export_pc>>

xlVars == <<xl_cfg, S_dist, XLs_satif, ambiguous_XLs_dict, xl_pc>>

parseVars == <<restraints, stat2_dict, stat_files, out, fields, S_tot_scores, DF_XLs,
               S_all, S_dist_all, S_comb_all, S_comb_dist, skip, skipped, parse_pc>>

equilVars == <<eq_index, sel_entries, ts_eq, eq_given, eq_raised, eq_stored, eq_pc>>

\* the variables of the components that follow the score tables
convVars == <<RH1, RH2, n_conv, conv_pc>>

poolVars == <<job, items, nproc, pool_nuisances, out_dirs_dict, processes, XLs_nuis, scores,
              saved, writes, pool_pc>>

schemaVars == <<opts, ncalls, schema, score_table, schema_pc>>

lateVars == <<equilVars, convVars, poolVars, schemaVars>>

vars == <<ctorVars, exportVars, xlVars, parseVars, lateVars>>

(***************************************************************************)
(* Text helpers: Python str operations used by the code.                    *)
(***************************************************************************)

\* the characters of the modelled paths and names, in code-point order
\* ('/' < digits < '_' < lower-case letters)
Alphabet == "/0123456789_abcdefghijklmnopqrstuvwxyz"

CharAt(s, i) == SubSeq(s, i, i)

\* ord(c), up to an order-preserving renumbering
CodeTable == [c \in {CharAt(Alphabet, i) : i \in 1..Len(Alphabet)} |->
                 CHOOSE i \in 1..Len(Alphabet) : CharAt(Alphabet, i) = c]

Code(c) == CodeTable[c]

Min2(a, b) == IF a <= b THEN a ELSE b

\* Python's str.__lt__: code-point lexicographic order, a proper prefix is smaller
StrLess(a, b) ==
    \/ \E i \in 1..Min2(Len(a), Len(b)) :
          /\ \A j \in 1..(i - 1) : CharAt(a, j) = CharAt(b, j)
          /\ Code(CharAt(a, i)) < Code(CharAt(b, i))
    \/ /\ Len(a) < Len(b)
       /\ \A j \in 1..Len(a) : CharAt(a, j) = CharAt(b, j)

StrLeq(a, b) == a = b \/ StrLess(a, b)

\* sub in s
Contains(sub, s) ==
    \E i \in 1..(Len(s) - Len(sub) + 1) : SubSeq(s, i, i + Len(sub) - 1) = sub

\* s.split(sep), sep a non-empty string
RECURSIVE Split(_, _)
Split(s, sep) ==
    LET hits == {i \in 1..(Len(s) - Len(sep) + 1) : SubSeq(s, i, i + Len(sep) - 1) = sep}
    IN  IF hits = {} THEN <<s>>
        ELSE LET i == CHOOSE x \in hits : \A y \in hits : x <= y
             IN  <<SubSeq(s, 1, i - 1)>> \o Split(SubSeq(s, i + Len(sep), Len(s)), sep)

Last(q) == q[Len(q)]

(***************************************************************************)
(* __init__ : lines 98-100                                                  *)
(***************************************************************************)

\* the directory names the callers pass (dir_name = 'run_')
Dirs == {"run_1/", "run_2/", "run_3/", "run_10/"}

\* longest list of directories given to the constructor
MaxDirs == 4

Range(s) == {s[i] : i \in 1..Len(s)}

Count(s, x) == Cardinality({i \in 1..Len(s) : s[i] = x})

\* all the orderings of the list s
Orderings(s) ==
    {t \in [1..Len(s) -> Range(s)] : \A x \in Range(s) : Count(t, x) = Count(s, x)}

\* insertion of x into the ascending list s
RECURSIVE InsertStr(_, _)
InsertStr(x, s) ==
    IF s = <<>> THEN <<x>>
    ELSE IF StrLeq(x, Head(s)) THEN <<x>> \o s
    ELSE <<Head(s)>> \o InsertStr(x, Tail(s))

RECURSIVE SortStrAsc(_)
SortStrAsc(s) == IF s = <<>> THEN <<>> ELSE InsertStr(Head(s), SortStrAsc(Tail(s)))

\* a constructor that forgets to sort
NpSortStr_unsorted(s) == s

\* np.sort on an array of str
NpSortStr(s) == SortStrAsc(s)

\* s[start::step] with 0-based start
Stride(s, start, step) ==
    [k \in 1..((Len(s) - start + step - 1) \div step) |-> s[start + 1 + (k - 1) * step]]

\* rank parity swapped
HalfA_swapped(dirs) == Stride(NpSortStr(dirs), 1, 2)

\* np.sort(self.out_dirs)[::2]
HalfA(dirs) == Stride(NpSortStr(dirs), 0, 2)

\* np.sort(self.out_dirs)[1::2]
HalfB(dirs) == Stride(NpSortStr(dirs), 1, 2)

CtorIdle ==
    /\ out_dirs = <<>> /\ dir_halfA = <<>> /\ dir_halfB = <<>>
    /\ twin_out_dirs = <<>> /\ twin_halfA = <<>> /\ twin_halfB = <<>>
    /\ ctor_pc = "idle"

CtorInit ==
    /\ out_dirs \in UNION {[1..n -> Dirs] : n \in 1..MaxDirs}
    /\ twin_out_dirs \in Orderings(out_dirs)
    /\ dir_halfA = <<>> /\ dir_halfB = <<>>
    /\ twin_halfA = <<>> /\ twin_halfB = <<>>
    /\ ctor_pc = "new"

\* AnalysisTrajectories(out_dirs)
Construct ==
    /\ ctor_pc = "new"
    /\ dir_halfA' = HalfA(out_dirs)
    /\ dir_halfB' = HalfB(out_dirs)
    /\ ctor_pc' = "built"
    /\ UNCHANGED <<out_dirs, twin_out_dirs, twin_halfA, twin_halfB>>
    /\ UNCHANGED <<exportVars, xlVars, parseVars, lateVars>>

\* AnalysisTrajectories(twin_out_dirs): the same directories in another order
ConstructTwin ==
    /\ ctor_pc = "built"
    /\ twin_halfA' = HalfA(twin_out_dirs)
    /\ twin_halfB' = HalfB(twin_out_dirs)
    /\ ctor_pc' = "twin_built"
    /\ UNCHANGED <<out_dirs, dir_halfA, dir_halfB, twin_out_dirs>>
    /\ UNCHANGED <<exportVars, xlVars, parseVars, lateVars>>

CtorNext == Construct \/ ConstructTwin

(***************************************************************************)
(* write_hdbscan_clustering : lines 763-823                                 *)
(* write_summary_hdbscan_clustering : lines 739-757                         *)
(* plot_scores_distributions : lines 929-994 (the sizes and the result)     *)
(*                                                                          *)
(* A table is kept as the number of its rows of every kind <<cluster, half>>;*)
(* the half of a row is "A", "B" or "unset" (the value 0 of line 628).      *)
(***************************************************************************)

\* line 779: the smallest number of rows a half must hold
MinHalf == 10

\* line 815: HH_cluster.sample(n=29999)
SampleSize == 29999

\* line 810: the size from which a cluster is subsampled
SampleLimit == 30000

\* largest cluster label given by the clustering engine (-1 is noise)
MaxCluster == 1

\* most rows of one cluster without a half label
MaxUnset == 1

\* a half of a small cluster holds up to MinHalf + MaxExtra rows
MaxExtra == 5

Labels == -1..MaxCluster

Halves == {"A", "B", "unset"}

RowKinds == Labels \X Halves

EmptyTable == [k \in RowKinds |-> 0]

\* len(T)
NRows(T) == LET RECURSIVE Sum(_)
                Sum(K) == IF K = {} THEN 0
                          ELSE LET k == CHOOSE x \in K : TRUE IN T[k] + Sum(K \ {k})
            IN  Sum(RowKinds)

\* T[T['cluster'] == cl]
WithCluster(T, cl) == [k \in RowKinds |-> IF k[1] = cl THEN T[k] ELSE 0]

\* T[T['half'] == h]
WithHalf(T, h) == [k \in RowKinds |-> IF k[2] = h THEN T[k] ELSE 0]

\* set(T['cluster'])
ClusterSet(T) == {cl \in Labels : NRows(WithCluster(T, cl)) > 0}

\* the noise label is not filtered out
SelectedClusters_all(T) == ClusterSet(T)

\* lines 770-771: [cl for cl in clusters if cl >= 0]
SelectedClusters(T) == {cl \in ClusterSet(T) : cl >= 0}

\* one half is enough
Qualifies_either(HA, HB) == NRows(HA) >= MinHalf \/ NRows(HB) >= MinHalf

\* line 779
Qualifies(HA, HB) == NRows(HA) >= MinHalf /\ NRows(HB) >= MinHalf

\* np.arange(start, stop, step) for step > 0
Arange(start, stop, step) ==
    IF stop <= start THEN <<>>
    ELSE [i \in 1..((stop - start + step - 1) \div step) |-> start + (i - 1) * step]

\* the sizes go up to the size of the smaller half, that size included
SubsampleSizes_upto(nA, nB) ==
    LET nn == nA + nB
        mn == Min2(nA, nB)
        M  == Arange(mn \div 20, mn + 1, nn \div 20)
    IN  IF Len(M) <= 10 THEN Arange(mn \div 10, mn + 1, mn \div 10) ELSE M

\* lines 952-956: the subsample sizes M
SubsampleSizes(nA, nB) ==
    LET nn == nA + nB
        mn == Min2(nA, nB)
        M  == Arange(mn \div 20, mn, nn \div 20)
    IN  IF Len(M) <= 10 THEN Arange(mn \div 10, mn, mn \div 10) ELSE M

\* lines 954-956: the step of the np.arange call that gives M
SubsampleStep(nA, nB) ==
    LET nn == nA + nB
        mn == Min2(nA, nB)
    IN  IF Len(Arange(mn \div 20, mn, nn \div 20)) <= 10 THEN mn \div 10 ELSE nn \div 20

\* lines 958-981, 994: n is 0, or the size RH1[s+1,0] of a step s on which four
\* hits were counted; the scores drawn (random.sample) decide which
ConvergedCounts(nA, nB) ==
    LET M == SubsampleSizes(nA, nB)
    IN  {0} \cup {M[i] : i \in 6..Len(M)}

\* the cluster is never subsampled
NeedsSample_never(n, HH_cluster) == FALSE

\* line 810, negated: the else branch is taken
NeedsSample(n, HH_cluster) == ~(n < SampleLimit /\ NRows(HH_cluster) < SampleLimit)

\* the outcomes of HH_cluster.sample(n=size), HH_cluster holding the rows of
\* cluster cl: every table of size rows within HH_cluster (a of half A, u without
\* a half, the others of half B)
Samples(HH_cluster, cl, size) ==
    {[k \in RowKinds |->
        IF k[1] # cl THEN 0
        ELSE IF k[2] = "A" THEN au[1]
        ELSE IF k[2] = "unset" THEN au[2]
        ELSE size - au[1] - au[2]] :
        au \in {x \in (0..Min2(HH_cluster[<<cl, "A">>], size))
                       \X (0..Min2(HH_cluster[<<cl, "unset">>], size)) :
                    /\ size - x[1] - x[2] >= 0
                    /\ size - x[1] - x[2] <= HH_cluster[<<cl, "B">>]}}

FileKinds == {"dat", "detailed_dat", "detailed_csv", "random_csv"}

\* the files written for one qualifying cluster (lines 783-820), HH_sel chosen
ClusterFiles(cl, HH_cluster, HH_sel) ==
    {[kind |-> kd, half |-> h, cluster |-> cl, rows |-> WithHalf(HH_cluster, h)] :
        kd \in {"dat", "detailed_dat", "detailed_csv"}, h \in {"A", "B"}}
    \cup
    {[kind |-> "random_csv", half |-> h, cluster |-> cl, rows |-> WithHalf(HH_sel, h)] :
        h \in {"A", "B"}}

\* the clusters that pass line 779
Selected(T) ==
    {cl \in SelectedClusters(T) :
        Qualifies(WithHalf(WithCluster(T, cl), "A"), WithHalf(WithCluster(T, cl), "B"))}

\* the possible values of HH_sel for cluster cl (lines 781, 810-817)
SelChoices(T, cl) ==
    LET HH_cluster == WithCluster(T, cl)
        nA == NRows(WithHalf(HH_cluster, "A"))
        nB == NRows(WithHalf(HH_cluster, "B"))
    IN  UNION {IF NeedsSample(n, HH_cluster)
               THEN Samples(HH_cluster, cl, SampleSize)
               ELSE {HH_cluster} : n \in ConvergedCounts(nA, nB)}

\* one value of HH_sel for every cluster of Cs: the loop of line 774 over them
RECURSIVE SelMaps(_, _)
SelMaps(T, Cs) ==
    IF Cs = {} THEN {<<>>}
    ELSE LET cl == CHOOSE c \in Cs : TRUE
             rest == SelMaps(T, Cs \ {cl})
             mine == SelChoices(T, cl)
         IN  {[c \in DOMAIN f \cup {cl} |-> IF c = cl THEN m ELSE f[c]] :
                 f \in rest, m \in mine}

ExportIdle ==
    /\ S_comb = EmptyTable /\ files = {} /\ summary = {}
    /\ warned = FALSE /\ export_pc = "idle"

\* the numbers of rows of one half of a small cluster
SmallCounts == {0, MinHalf - 1, MinHalf, MinHalf + MaxExtra}

\* the halves <<A, B>> of a large cluster
BigHalves == {<<10000, 10000>>, <<14999, 15000>>, <<15000, 15000>>,
              <<39990, 10>>, <<10, 39990>>, <<39980, 20>>}

\* labelled combined tables of small clusters
SmallTables ==
    {[k \in RowKinds |->
        IF k[2] = "unset" THEN u
        ELSE IF k[1] = -1 THEN nz[k[2]]
        ELSE c[k[1]][k[2]]] :
        u \in 0..MaxUnset,
        nz \in [{"A", "B"} -> {0, MinHalf}],
        c \in {x \in [0..MaxCluster -> [{"A", "B"} -> SmallCounts]] :
                  \A cl \in 1..MaxCluster, h \in {"A", "B"} : x[cl][h] <= MinHalf}}

\* labelled combined tables with one large cluster
BigTables ==
    {[k \in RowKinds |->
        IF k[1] = 0 THEN (IF k[2] = "A" THEN b[1] ELSE IF k[2] = "B" THEN b[2] ELSE u)
        ELSE IF k[1] = -1 /\ k[2] = "A" THEN nz
        ELSE 0] :
        u \in 0..MaxUnset, nz \in {0, MinHalf}, b \in BigHalves}

ExportInit ==
    /\ S_comb \in SmallTables \cup BigTables
    /\ files = {} /\ summary = {}
    /\ warned = FALSE /\ export_pc = "clustered"

\* the warning is never printed
NoneSelected_never(clus_sel) == FALSE

\* line 822: if clus_sel == 0
NoneSelected(clus_sel) == clus_sel = 0

\* write_hdbscan_clustering(S_comb)
write_hdbscan_clustering ==
    /\ export_pc = "clustered"
    /\ \E sel \in SelMaps(S_comb, Selected(S_comb)) :
          files' = UNION {ClusterFiles(cl, WithCluster(S_comb, cl), sel[cl]) :
                             cl \in Selected(S_comb)}
    /\ warned' = NoneSelected(Cardinality(Selected(S_comb)))
    /\ export_pc' = "written"
    /\ UNCHANGED <<S_comb, summary>>
    /\ UNCHANGED <<ctorVars, xlVars, parseVars, lateVars>>

\* one row of the summary: the label and the three counts of lines 752-754
SummaryRow(T, cl) ==
    [cluster  |-> cl,
     n_models |-> NRows(WithCluster(T, cl)),
     n_A      |-> NRows(WithHalf(WithCluster(T, cl), "A")),
     n_B      |-> NRows(WithHalf(WithCluster(T, cl), "B"))]

\* write_summary_hdbscan_clustering(S_comb_sel): lines 746-757
write_summary_hdbscan_clustering ==
    /\ export_pc = "written"
    /\ summary' = {SummaryRow(S_comb, cl) : cl \in ClusterSet(S_comb)}
    /\ export_pc' = "summarised"
    /\ UNCHANGED <<S_comb, files, warned>>
    /\ UNCHANGED <<ctorVars, xlVars, parseVars, lateVars>>

ExportNext == write_hdbscan_clustering \/ write_summary_hdbscan_clustering

(***************************************************************************)
(* check_XLs_ambiguity : lines 996-1031                                     *)
(* analyze_trajectory_XLs : lines 1059-1099                                 *)
(* get_XLs_satisfaction : lines 1101-1136                                   *)
(* get_str_match, substrings : lines 1316-1326                              *)
(***************************************************************************)

\* largest distance of the model (distances are 1..MaxDist)
MaxDist == 3

\* the frames of the distance table
Frames == {1, 2}

\* the distance fields of the sample log (line 210): two alternatives of
\* cross-link 1 and one of cross-link 2, of two types and two nuisance families
DistNames ==
    <<"CrossLinkingMassSpectrometryRestraint_Distance_|DSSO|1.1|a|10|b|20|0|PSIA|",
      "CrossLinkingMassSpectrometryRestraint_Distance_|DSSO|1.2|a|10|c|20|0|PSIA|",
      "CrossLinkingMassSpectrometryRestraint_Distance_|EDC|2.1|a|30|b|40|0|PSIB|">>

\* the nuisance fields of the sample log (line 213)
NuisNames ==
    <<"CrossLinkingMassSpectrometryRestraint_Psi_PSIA",
      "CrossLinkingMassSpectrometryRestraint_Psi_PSIB">>

\* The names and the patterns of this component are fixed, so the two text
\* operations applied to them are tabulated once.
NameTexts == Range(DistNames) \cup Range(NuisNames)

PatternTexts == {"Distance_", "BestDist", "Psi", "DSSO", "EDC", "A", "B"}

ContainsTable == [sub \in PatternTexts |-> [x \in NameTexts |-> Contains(sub, x)]]

\* sub in x, for a column name x
InName(sub, x) ==
    IF sub \in PatternTexts /\ x \in NameTexts THEN ContainsTable[sub][x] ELSE Contains(sub, x)

\* list(self.XLs_info.keys()): lines 210-222
XLsNames(nuisances) == IF nuisances THEN DistNames \o NuisNames ELSE DistNames

\* substrings(s)
Substrings(s) == {SubSeq(s, i, j) : i \in 1..Len(s), j \in 1..Len(s)} \ {""}

\* get_str_match(strs): a longest common substring of the first two names
GetStrMatch(strs) ==
    IF Len(strs) > 1
    THEN LET common == Substrings(strs[1]) \cap Substrings(strs[2])
         IN  CHOOSE m \in common : \A x \in common : Len(x) <= Len(m)
    ELSE strs[1]

\* line 214
psi_head == GetStrMatch(NuisNames)

\* line 1073: the nuisance families, from the columns of DF_XLs_psi
all_psis == {Split(NuisNames[i], psi_head)[2] : i \in 1..Len(NuisNames)}

\* lines 1008-1009: id = vals[2].split('.')[0]
XlIdTable == [xl \in Range(DistNames) |-> Split(Split(xl, "|")[3], ".")[1]]

XlId(xl) == XlIdTable[xl]

\* every key is put under every id
GroupsOf_all(keys) ==
    [id \in {XlId(keys[i]) : i \in 1..Len(keys)} |-> Range(keys)]

\* the dictionary built by one loop of check_XLs_ambiguity over the keys that
\* pass the filter: id -> the keys of that id
GroupsOf(keys) ==
    [id \in {XlId(keys[i]) : i \in 1..Len(keys)} |->
        {keys[i] : i \in {j \in 1..Len(keys) : XlId(keys[j]) = id}}]

\* check_XLs_ambiguity(all_keys)
CheckXLsAmbiguity(all_keys, cfg) ==
    IF cfg.Multiple_XLs_restraints
    THEN [t \in {cfg.XLs_cutoffs[i][1] : i \in 1..Len(cfg.XLs_cutoffs)} |->
            GroupsOf(SelectSeq(all_keys,
                        LAMBDA xl : InName("Distance_", xl) /\ InName(t, xl)))]
    ELSE GroupsOf(SelectSeq(all_keys, LAMBDA xl : InName("Distance_", xl)))

\* self.XLs_cutoffs[type_XLs]
CutoffOf(cfg, t) ==
    LET i == CHOOSE j \in 1..Len(cfg.XLs_cutoffs) : cfg.XLs_cutoffs[j][1] = t
    IN  cfg.XLs_cutoffs[i][2]

\* list(self.XLs_cutoffs.values())[0]
FirstCutoff(cfg) == cfg.XLs_cutoffs[1][2]

\* a distance equal to the cutoff is not counted
Satisfied_strict(d, cutoff) == d < cutoff

\* x <= cutoff (lines 1131, 1134)
Satisfied(d, cutoff) == d <= cutoff

\* the largest distance of the alternatives
GroupMin_max(row, v) == CHOOSE d \in {row[c] : c \in v} : \A e \in {row[c] : c \in v} : e <= d

\* XLs_dists[v].min(axis=1) for one frame
GroupMin(row, v) == CHOOSE d \in {row[c] : c \in v} : \A e \in {row[c] : c \in v} : d <= e

\* sum(x<=cutoff)/len(x) for one frame, x the values vals (a function)
Fraction(vals, cutoff) ==
    [num |-> Cardinality({k \in DOMAIN vals : Satisfied(vals[k], cutoff)}),
     den |-> Cardinality(DOMAIN vals)]

\* get_XLs_satisfaction(S_dist, atomic_XLs, type_XLs, type_psi); None is ""
GetXLsSatisfaction(columns, rows, cfg, atomic_XLs, type_XLs, type_psi) ==
    LET Pick(Test(_)) == {columns[i] : i \in {j \in 1..Len(columns) : Test(columns[j])}}
        dist_columns ==
            IF type_XLs # "" /\ type_psi = ""
            THEN Pick(LAMBDA x : InName("Distance_", x) /\ InName(type_XLs, x))
            ELSE IF type_psi # "" /\ type_XLs = ""
            THEN Pick(LAMBDA x : InName("Distance_", x) /\ InName(type_psi, x))
            ELSE IF type_XLs # "" /\ type_psi # ""
            THEN Pick(LAMBDA x : InName("Distance_", x) /\ InName(type_XLs, x)
                                    /\ InName(type_psi, x))
            ELSE IF atomic_XLs
            THEN Pick(LAMBDA x : InName("BestDist", x))
            ELSE Pick(LAMBDA x : InName("Distance_", x))
        cutoff == IF type_XLs # "" THEN CutoffOf(cfg, type_XLs) ELSE FirstCutoff(cfg)
        all_groups == CheckXLsAmbiguity(columns, cfg)
        groups == IF cfg.Multiple_XLs_restraints THEN all_groups[type_XLs] ELSE all_groups
        Ok(perc) == [error |-> "", perc_per_step |-> perc]
        KeyError == [error |-> "KeyError", perc_per_step |-> <<>>]
    IN  IF cfg.ambiguous_XLs_restraint
        THEN IF cfg.Multiple_XLs_restraints /\ type_XLs \notin DOMAIN all_groups
             THEN KeyError
             ELSE IF \E k \in DOMAIN groups : ~(groups[k] \subseteq dist_columns)
             THEN KeyError
             ELSE IF DOMAIN groups = {} THEN Ok(<<>>)
             ELSE Ok([f \in DOMAIN rows |->
                     Fraction([k \in DOMAIN groups |-> GroupMin(rows[f], groups[k])], cutoff)])
        ELSE IF dist_columns = {} THEN Ok(<<>>)
        ELSE Ok([f \in DOMAIN rows |->
                 Fraction([c \in dist_columns |-> rows[f][c]], cutoff)])

\* the calls of lines 1065-1083, each with the name of the column it fills
SatisfactionCalls(cfg) ==
    IF cfg.Multiple_XLs_restraints
    THEN {[name |-> "XLs_satif_" \o cfg.XLs_cutoffs[i][1],
           type_XLs |-> cfg.XLs_cutoffs[i][1], type_psi |-> ""] :
             i \in 1..Len(cfg.XLs_cutoffs)}
    ELSE IF cfg.XLs_restraint_nuisances
    THEN {[name |-> "XLs_satif_" \o t, type_XLs |-> "", type_psi |-> t] : t \in all_psis}
    ELSE {[name |-> "XLs_satif", type_XLs |-> "", type_psi |-> ""]}

XLIdle ==
    /\ xl_cfg = <<>> /\ S_dist = <<>> /\ XLs_satif = <<>> /\ ambiguous_XLs_dict = <<>>
    /\ xl_pc = "idle"

\* XLs_cutoffs as given to set_analyze_XLs_restraint, in insertion order
CutoffChoices ==
    {<< <<"DSSO", 2>> >>, << <<"DSSO", 2>>, <<"EDC", 1>> >>, << <<"EDC", 1>>, <<"DSSO", 2>> >>}

XLInit ==
    /\ xl_cfg \in [ambiguous_XLs_restraint : BOOLEAN,
                   Multiple_XLs_restraints : BOOLEAN,
                   XLs_restraint_nuisances : BOOLEAN,
                   XLs_cutoffs : CutoffChoices]
    /\ S_dist \in [Frames -> [Range(XLsNames(xl_cfg.XLs_restraint_nuisances)) -> 1..MaxDist]]
    /\ \A f \in Frames, i \in 1..Len(NuisNames) :
          NuisNames[i] \in DOMAIN S_dist[f] => S_dist[f][NuisNames[i]] = 1
    /\ XLs_satif = <<>>
    /\ ambiguous_XLs_dict = <<>>
    /\ xl_pc = "new"

\* lines 251-254 of get_restraint_fields: the call of check_XLs_ambiguity
check_XLs_ambiguity ==
    /\ xl_pc = "new"
    /\ ambiguous_XLs_dict' =
          IF xl_cfg.ambiguous_XLs_restraint
          THEN CheckXLsAmbiguity(XLsNames(xl_cfg.XLs_restraint_nuisances), xl_cfg)
          ELSE ambiguous_XLs_dict
    /\ xl_pc' = "ready"
    /\ UNCHANGED <<xl_cfg, S_dist, XLs_satif>>
    /\ UNCHANGED <<ctorVars, exportVars, parseVars, lateVars>>

\* analyze_trajectory_XLs(S_tot_scores, S_dist, atomic_XLs = False, ...)
analyze_trajectory_XLs ==
    /\ xl_pc = "ready"
    /\ LET calls == SatisfactionCalls(xl_cfg)
           cols == XLsNames(xl_cfg.XLs_restraint_nuisances)
           res == [n \in {c.name : c \in calls} |->
                     LET c == CHOOSE x \in calls : x.name = n
                     IN  GetXLsSatisfaction(cols, S_dist, xl_cfg, FALSE, c.type_XLs, c.type_psi)]
       IN  XLs_satif' = IF \E n \in DOMAIN res : res[n].error # ""
                        THEN [error |-> "KeyError", columns |-> <<>>]
                        ELSE [error |-> "", columns |-> [n \in DOMAIN res |-> res[n].perc_per_step]]
    /\ xl_pc' = "done"
    /\ UNCHANGED <<xl_cfg, S_dist, ambiguous_XLs_dict>>
    /\ UNCHANGED <<ctorVars, exportVars, parseVars, lateVars>>

XLNext ==
    \/ check_XLs_ambiguity
    \/ analyze_trajectory_XLs

(***************************************************************************)
(* get_restraint_fields : lines 176-310                                     *)
(* read_stats_detailed, add_restraint_type : lines 374-478                  *)
(* read_traj_info : lines 480-634, hdbscan_clustering : lines 698-737       *)
(***************************************************************************)

\* self.th: the warm-up rows every trajectory loses
th == 50

\* the stat files of a directory hold th + 1 to th + MaxTail frame records
MaxTail == 2

\* largest equilibration time detectEquilibration reports
MaxEq == 1

Digits == "0123456789"

DigitTable == [c \in {CharAt(Digits, i) : i \in 1..10} |->
                  (CHOOSE i \in 1..10 : CharAt(Digits, i) = c) - 1]

\* float(s) and int(s) of a string of decimal digits
RECURSIVE ParseFloat(_)
ParseFloat(s) ==
    IF Len(s) = 1 THEN DigitTable[s]
    ELSE 10 * ParseFloat(SubSeq(s, 1, Len(s) - 1)) + DigitTable[CharAt(s, Len(s))]

\* the text of a number in a stat line (the values of eval(line) are str)
RECURSIVE NatStr(_)
NatStr(n) ==
    IF n < 10 THEN CharAt(Digits, n + 1)
    ELSE NatStr(n \div 10) \o CharAt(Digits, (n % 10) + 1)

\* sum of the values of a function with a finite domain
SumOver(f) ==
    LET RECURSIVE Sum(_)
        Sum(K) == IF K = {} THEN 0
                  ELSE LET k == CHOOSE x \in K : TRUE IN f[k] + Sum(K \ {k})
    IN  Sum(DOMAIN f)

\* get_field_id(dict, val): the ids of the fields named val
GetFieldId(dict, val) == SelectSeq([k \in 1..Len(dict) |-> k], LAMBDA k : dict[k] = val)

\* get_fields(name_stat_file, short_name): the column names and the field ids
GetFields(dict, name_stat_file, short_name) ==
    LET RES == SelectSeq([k \in 1..Len(dict) |-> k],
                         LAMBDA k : Contains(name_stat_file, dict[k]))
    IN  [names  |-> IF Len(RES) = 1 THEN <<short_name \o "_sum">>
                    ELSE [i \in 1..Len(RES) |->
                            short_name \o "_" \o Last(Split(dict[RES[i]], name_stat_file \o "_"))],
         fields |-> RES]

NoFields == [names |-> <<>>, fields |-> <<>>]

\* get_restraint_fields() with the cross-link restraint set by
\* set_analyze_XLs_restraint(get_nuisances = False)
GetRestraintFields(dict, flags) ==
    LET EV  == IF flags.Excluded_volume_restraint
               THEN GetFields(dict, "ExcludedVolumeSphere", "EV") ELSE NoFields
        CR  == IF flags.Connectivity_restraint
               THEN GetFields(dict, "ConnectivityRestraint", "CR") ELSE NoFields
        XLd == GetFields(dict, "CrossLinkingMassSpectrometryRestraint_Data_Score", "XLs")
        XLp == GetFields(dict, "CrossLinkingMassSpectrometryRestraint_PriorPsi_Score", "XLs_psi")
        XLs_dist == SelectSeq([k \in 1..Len(dict) |-> k],
                        LAMBDA k : Contains("CrossLinkingMassSpectrometryRestraint_Distance_", dict[k]))
    IN  [restraint_names |-> <<"MC_frame", "rmf_frame_index", "Total_score">>
                                \o EV.names \o CR.names \o XLd.names \o XLp.names,
         all_fields      |-> GetFieldId(dict, "MonteCarlo_Nframe")
                                \o GetFieldId(dict, "rmf_frame_index")
                                \o GetFieldId(dict, "Total_Score")
                                \o EV.fields \o CR.fields \o XLd.fields \o XLp.fields,
         rmf_file_field  |-> GetFieldId(dict, "rmf_file"),
         XLs_names       |-> [i \in 1..Len(XLs_dist) |-> dict[XLs_dist[i]]],
         xls_fields      |-> XLs_dist]

\* a line that is not valid is skipped and the reading goes on
ReadLines_skipping(file) == SelectSeq(file, LAMBDA l : l.ok)

\* the lines of one file read before the first line eval() rejects (break)
ReadLines(file) ==
    LET bad == {i \in 1..Len(file) : ~file[i].ok}
    IN  IF bad = {} THEN file
        ELSE SubSeq(file, 1, (CHOOSE i \in bad : \A j \in bad : i <= j) - 1)

\* the warnings printed: the file and the line number of every line that ended
\* the reading of its file
SkippedLines(sfiles) ==
    LET hit == SelectSeq([j \in 1..Len(sfiles) |-> j],
                         LAMBDA j : Len(ReadLines(sfiles[j])) < Len(sfiles[j]))
    IN  [k \in 1..Len(hit) |-> <<hit[k], Len(ReadLines(sfiles[hit[k]])) + 1>>]

\* the dictionaries of the lines with line_number > 1, file after file
RECURSIVE ReadRecords(_)
ReadRecords(sfiles) ==
    IF sfiles = <<>> THEN <<>>
    ELSE LET lines == ReadLines(Head(sfiles))
         IN  [i \in 1..(Len(lines) - 1) |-> lines[i + 1].d] \o ReadRecords(Tail(sfiles))

\* the rows are left in reading order
SortByFrame_unsorted(rows) == rows

\* S_scores.sort(key=lambda x: float(x[0])): a stable sort on the first entry
SortByFrame(rows) ==
    LET s == rows \o <<>>
        n == Len(s)
        rank == [i \in 1..n |->
                    Cardinality({j \in 1..n : \/ s[j][1] < s[i][1]
                                              \/ s[j][1] = s[i][1] /\ j <= i})] \o <<>>
    IN  [p \in 1..n |-> s[CHOOSE i \in 1..n : rank[i] = p]] \o <<>>

\* the orders S_dist[S_dist[:,0].argsort()] may give: ascending on the first
\* entry, rows of equal first entry in any order (the sort is not stable)
RECURSIVE ArgSorts(_)
ArgSorts(sorted) ==
    IF sorted = <<>> THEN {<<>>}
    ELSE LET run == CHOOSE k \in 1..Len(sorted) :
                        /\ \A i \in 1..k : sorted[i][1] = sorted[1][1]
                        /\ (k < Len(sorted) => sorted[k + 1][1] # sorted[1][1])
         IN  {a \o b : a \in Orderings(SubSeq(sorted, 1, run)),
                       b \in ArgSorts(SubSeq(sorted, run + 1, Len(sorted)))}

\* pd.DataFrame(data, columns = names)
DataFrame(data, names) ==
    [columns |-> names,
     rows    |-> [i \in 1..Len(data) |->
                    [c \in Range(names) |->
                        data[i][CHOOSE k \in 1..Len(names) : names[k] = c]]]]

\* DF.assign(name = vals): a new last column, or new values of the column name
Assign(DF, name, vals) ==
    LET cols == IF name \in Range(DF.columns) THEN DF.columns ELSE Append(DF.columns, name)
    IN  [columns |-> cols,
         rows    |-> [i \in 1..Len(DF.rows) |->
                        [c \in Range(cols) |-> IF c = name THEN vals[i] ELSE DF.rows[i][c]]]]

\* only the first column that contains key_id is taken
AddRestraintType_first(DF, key_id) ==
    LET first == CHOOSE k \in 1..Len(DF.columns) :
                    /\ Contains(key_id, DF.columns[k])
                    /\ \A j \in 1..(k - 1) : ~Contains(key_id, DF.columns[j])
    IN  [i \in 1..Len(DF.rows) |-> DF.rows[i][DF.columns[first]]]

\* add_restraint_type(DF, key_id): the row sums of the columns that contain key_id
AddRestraintType(DF, key_id) ==
    LET temp_fields == {c \in Range(DF.columns) : Contains(key_id, c)}
    IN  [i \in 1..Len(DF.rows) |-> SumOver([c \in temp_fields |-> DF.rows[i][c]])]

\* the total score is recomputed from the restraint columns
ScoreRow_recomputed(d, f, traj) ==
    LET s == [i \in 1..Len(f.all_fields) |-> ParseFloat(d[f.all_fields[i]])]
    IN  [i \in 1..Len(s) |->
            IF i = 3 THEN SumOver([k \in 4..Len(s) |-> s[k]]) ELSE s[i]]
        \o <<traj, d[f.rmf_file_field[1]]>>

\* s0 of line 397
ScoreRow(d, f, traj) ==
    [i \in 1..Len(f.all_fields) |-> ParseFloat(d[f.all_fields[i]])]
        \o <<traj, d[f.rmf_file_field[1]]>>

\* the sum columns of lines 414-444, in the order of the code
WithSums(DF, flags) ==
    LET AddSum(T, on, key, name) == IF on THEN Assign(T, name, AddRestraintType(T, key)) ELSE T
        T1 == AddSum(DF, flags.XLs_restraint /\ flags.sum_XLs_restraint, "XLs_", "XLs_sum")
        T2 == AddSum(T1, flags.Excluded_volume_restraint /\ flags.sum_Excluded_volume_restraint,
                     "EV_", "EV_sum")
    IN  AddSum(T2, flags.Connectivity_restraint /\ flags.sum_Connectivity_restraint,
               "CR_", "CR_sum")

\* the score table read_stats_detailed returns
ScoreTable(sfiles, f, flags, traj) ==
    LET recs == ReadRecords(sfiles)
        S_scores == SortByFrame([i \in 1..Len(recs) |-> ScoreRow(recs[i], f, traj)])
    IN  WithSums(DataFrame(S_scores, f.restraint_names \o <<"traj", "rmf3_file">>), flags)

\* the distance tables read_stats_detailed may return
DistTables(sfiles, f) ==
    LET recs == ReadRecords(sfiles)
        rows == [i \in 1..Len(recs) |->
                    <<ParseFloat(recs[i][f.all_fields[1]])>>
                        \o [k \in 1..Len(f.xls_fields) |-> ParseFloat(recs[i][f.xls_fields[k]])]]
    IN  {DataFrame(o, <<"MC_frame">> \o f.XLs_names) : o \in ArgSorts(SortByFrame(rows))}

\* the directories of the object whose trajectories are read (dir_name = 'run_')
TrajDirs == <<"run_2/", "run_1/">>

\* lines 491-496: the trajectory name of a directory
TrajOf(dir) ==
    LET named == SelectSeq(Split(dir, "/"), LAMBDA x : Contains("run_", x))
    IN  IF Contains("run_", dir) THEN named[1] ELSE "0"

\* the two labels are exchanged
HalfOf_swapped(dir, dirs) ==
    IF dir \in Range(HalfA(dirs)) THEN "B"
    ELSE IF dir \in Range(HalfB(dirs)) THEN "A"
    ELSE "0"

\* lines 623-628: the half label of the rows of directory dir in an object
\* built with the directories dirs ("0" stands for the int 0)
HalfOf(dir, dirs) ==
    IF dir \in Range(HalfA(dirs)) THEN "A"
    ELSE IF dir \in Range(HalfB(dirs)) THEN "B"
    ELSE "0"

\* the half label of a directory of TrajDirs
HalfLabel(dir) == HalfOf(dir, TrajDirs)

\* the settings of set_analyze_XLs_restraint(get_nuisances = False,
\* XLs_cutoffs = {'DSSO': 2})
ParseXLCfg ==
    [ambiguous_XLs_restraint |-> FALSE, Multiple_XLs_restraints |-> FALSE,
     XLs_restraint_nuisances |-> FALSE, XLs_cutoffs |-> << <<"DSSO", 2>> >>]

EmptyDF == [columns |-> <<>>, rows |-> <<>>]

\* DF[ts_max:]
RowsFrom(DF, ts_max) == [columns |-> DF.columns, rows |-> SubSeq(DF.rows, ts_max + 1, Len(DF.rows))]

\* pd.concat(all_dfs), the tables taken in np.sort order of their directories
RECURSIVE Concat(_, _)
Concat(tables, dirs) ==
    IF dirs = <<>> THEN EmptyDF
    ELSE LET rest == Concat(tables, Tail(dirs))
         IN  [columns |-> tables[Head(dirs)].columns,
              rows    |-> tables[Head(dirs)].rows \o rest.rows]

\* the labelled combined table as the writers see it: rows per cluster and half
CountTable(DF) ==
    [k \in RowKinds |->
        Cardinality({i \in 1..Len(DF.rows) :
            /\ DF.rows[i]["cluster"] = k[1]
            /\ k[2] = (IF DF.rows[i]["half"] \in {"A", "B"} THEN DF.rows[i]["half"] ELSE "unset")})]

\* the labels HDBSCAN gives the rows of this component
ParseLabels == {-1, 0}

ParseIdle ==
    /\ restraints = <<>> /\ stat2_dict = <<>> /\ stat_files = <<>> /\ out = ""
    /\ fields = <<>> /\ S_tot_scores = EmptyDF /\ DF_XLs = EmptyDF
    /\ S_all = <<>> /\ S_dist_all = <<>> /\ S_comb_all = EmptyDF
    /\ S_comb_dist = EmptyDF /\ skip = 1 /\ skipped = <<>> /\ parse_pc = "idle"

\* headers of the sample stat file: two or one excluded-volume fields, a field of
\* a restraint that is not analysed, one cross-link with its distance
StatHeader2EV ==
    <<"MonteCarlo_Nframe", "rmf_file", "rmf_frame_index", "Total_Score",
      "ExcludedVolumeSphere_A", "ExcludedVolumeSphere_B", "ConnectivityRestraint_None",
      "GaussianEMRestraint_None", "CrossLinkingMassSpectrometryRestraint_Data_Score_XL",
      DistNames[1]>>

StatHeader1EV ==
    <<"MonteCarlo_Nframe", "rmf_file", "rmf_frame_index", "Total_Score",
      "ExcludedVolumeSphere_None", "ConnectivityRestraint_None",
      "GaussianEMRestraint_None", "CrossLinkingMassSpectrometryRestraint_Data_Score_XL",
      DistNames[1]>>

\* the fields every stat file is expected to have (lines 183-186)
MandatoryFields == {"MonteCarlo_Nframe", "rmf_file", "rmf_frame_index", "Total_Score"}

\* the header of a sampler that does not write the field called name
StatHeaderWithout(name) == SelectSeq(StatHeader1EV, LAMBDA x : x # name)

\* the score fields the sampler adds up into Total_Score
ScoreNames ==
    {"ExcludedVolumeSphere_A", "ExcludedVolumeSphere_B", "ExcludedVolumeSphere_None",
     "ConnectivityRestraint_None", "GaussianEMRestraint_None",
     "CrossLinkingMassSpectrometryRestraint_Data_Score_XL"}

\* the value the sampler logs in field name of the r-th record it writes
FieldValue(name, r) ==
    IF name = "ExcludedVolumeSphere_B" THEN (2 * r) % 5
    ELSE IF name \in {"ExcludedVolumeSphere_A", "ExcludedVolumeSphere_None"} THEN r % 3
    ELSE IF name = "ConnectivityRestraint_None" THEN r % 2
    ELSE IF name = "GaussianEMRestraint_None" THEN 1 + (r % 2)
    ELSE IF name = "CrossLinkingMassSpectrometryRestraint_Data_Score_XL" THEN r % 4
    ELSE IF name = "rmf_frame_index" THEN r - 1
    ELSE 1 + (r % 3)

\* the frame counter of the r-th of N records: counting by one, by ten, or with
\* the last record repeating the counter of the one before
FrameCounters == {"step1", "step10", "repeat"}

FrameOf(fc, r, N) ==
    IF fc = "step10" THEN 10 * (r - 1)
    ELSE IF fc = "repeat" /\ r = N THEN N - 2
    ELSE r - 1

\* eval(line) of the r-th record: field id -> str
StatLine(dict, fc, r, N) ==
    [ok |-> TRUE,
     d  |-> [k \in 1..Len(dict) |->
               IF dict[k] = "MonteCarlo_Nframe" THEN NatStr(FrameOf(fc, r, N))
               ELSE IF dict[k] = "rmf_file" THEN "0.rmf3"
               ELSE IF dict[k] = "Total_Score"
               THEN NatStr(SumOver([j \in {x \in 1..Len(dict) : dict[x] \in ScoreNames} |->
                                        FieldValue(dict[j], r)]))
               ELSE NatStr(FieldValue(dict[k], r))]]

\* a line eval() rejects
BadLine == [ok |-> FALSE, d |-> <<>>]

\* how the records lie in the files: one file in writing order, one file in
\* reverse order, or two files that take the records in turn
Layouts == {"one", "reversed", "two"}

Shards(layout, N) ==
    IF layout = "one" THEN << [i \in 1..N |-> i] >>
    ELSE IF layout = "reversed" THEN << [i \in 1..N |-> N + 1 - i] >>
    ELSE << [i \in 1..((N + 1) \div 2) |-> 2 * i - 1], [i \in 1..(N \div 2) |-> 2 * i] >>

\* the stat files: each starts with the header line; bad = 1 or 2 makes the
\* bad-th line from the end of the first file invalid, bad = 3 its second line
StatFiles(dict, layout, fc, N, bad) ==
    LET sh == Shards(layout, N)
    IN  [j \in 1..Len(sh) |->
            <<[ok |-> TRUE, d |-> dict]>> \o
            [i \in 1..Len(sh[j]) |->
                IF j = 1 /\ bad \in {1, 2} /\ i = Len(sh[j]) + 1 - bad THEN BadLine
                ELSE IF j = 1 /\ bad = 3 /\ i = 1 THEN BadLine
                ELSE StatLine(dict, fc, sh[j][i], N)]]

ParseInit ==
    /\ restraints \in [XLs_restraint : BOOLEAN, sum_XLs_restraint : {TRUE},
                       Excluded_volume_restraint : BOOLEAN,
                       sum_Excluded_volume_restraint : BOOLEAN,
                       Connectivity_restraint : BOOLEAN,
                       sum_Connectivity_restraint : {TRUE}]
    /\ restraints.Excluded_volume_restraint \/ restraints.sum_Excluded_volume_restraint
    /\ stat2_dict \in {StatHeader2EV, StatHeader1EV}
                        \cup {StatHeaderWithout(name) : name \in MandatoryFields}
    /\ \E layout \in Layouts, fc \in FrameCounters, N \in (th + 1)..(th + MaxTail),
          bad \in {0, 1, 2, 3} :
          /\ restraints.XLs_restraint \/ (layout = "one" /\ fc = "step1" /\ bad = 0)
          /\ layout = "reversed" => bad = 0
          /\ bad \in {2, 3} =>
                /\ fc = "step1" /\ stat2_dict = StatHeader1EV
                /\ restraints.Excluded_volume_restraint
                /\ restraints.sum_Excluded_volume_restraint
                /\ restraints.Connectivity_restraint
          /\ stat2_dict \notin {StatHeader2EV, StatHeader1EV} =>
                /\ layout = "one" /\ fc = "step1" /\ bad = 0 /\ N = th + 1
                /\ restraints.XLs_restraint /\ restraints.Connectivity_restraint
          /\ stat_files = StatFiles(stat2_dict, layout, fc, N, bad)
    /\ out \in Range(TrajDirs)
    /\ fields = <<>> /\ S_tot_scores = EmptyDF /\ DF_XLs = EmptyDF
    /\ S_all = <<>> /\ S_dist_all = <<>> /\ S_comb_all = EmptyDF
    /\ S_comb_dist = EmptyDF /\ skip = 1 /\ skipped = <<>>
    /\ parse_pc = "new"

\* get_restraint_fields(): line 251 reads self.XLs_info, which only the
\* cross-link branch of line 211 sets
get_restraint_fields ==
    /\ parse_pc = "new"
    /\ IF restraints.XLs_restraint
       THEN /\ fields' = GetRestraintFields(stat2_dict, restraints)
            /\ parse_pc' = "fields"
       ELSE /\ parse_pc' = "AttributeError"
            /\ UNCHANGED fields
    /\ UNCHANGED <<restraints, stat2_dict, stat_files, out, S_tot_scores, DF_XLs,
                   S_all, S_dist_all, S_comb_all, S_comb_dist, skip, skipped>>
    /\ UNCHANGED <<ctorVars, exportVars, xlVars, lateVars>>

\* read_stats_detailed(traj, stat_files, ...) as read_traj_info calls it.
\* Line 396 takes the first entry of the ids of rmf_file; line 411 needs as many
\* values in a row as there are column names; line 449 needs one row at least.
read_stats_detailed ==
    /\ parse_pc = "fields"
    /\ skipped' = SkippedLines(stat_files)
    /\ IF ReadRecords(stat_files) # <<>> /\ fields.rmf_file_field = <<>>
       THEN /\ parse_pc' = "IndexError"
            /\ UNCHANGED <<S_tot_scores, DF_XLs>>
       ELSE IF Len(fields.all_fields) # Len(fields.restraint_names)
       THEN /\ parse_pc' = "ValueError"
            /\ UNCHANGED <<S_tot_scores, DF_XLs>>
       ELSE IF ReadRecords(stat_files) = <<>>
       THEN /\ parse_pc' = "IndexError"
            /\ UNCHANGED <<S_tot_scores, DF_XLs>>
       ELSE /\ S_tot_scores' = ScoreTable(stat_files, fields, restraints, TrajOf(out))
            /\ DF_XLs' \in DistTables(stat_files, fields)
            /\ parse_pc' = "parsed"
    /\ UNCHANGED <<restraints, stat2_dict, stat_files, out, fields, S_all, S_dist_all,
                   S_comb_all, S_comb_dist, skip>>
    /\ UNCHANGED <<ctorVars, exportVars, xlVars, lateVars>>

\* read_traj_info(out) after its call of read_stats_detailed: lines 557-634.
\* t is the largest equilibration time of the evaluated columns; the detector
\* gets the rows from th on and a column it fails on counts as 0.
read_traj_info ==
    /\ parse_pc = "parsed"
    /\ \E t \in 0..Min2(MaxEq, Len(S_tot_scores.rows) - th - 1) \cup {0} :
            LET ts_max == t + th
                XLs_satif_col == GetXLsSatisfaction(DF_XLs.columns, DF_XLs.rows, ParseXLCfg,
                                                    FALSE, "", "").perc_per_step
                T1 == Assign(S_tot_scores, "XLs_satif", XLs_satif_col)
                T2 == Assign(T1, "half", [i \in 1..Len(T1.rows) |-> HalfLabel(out)])
            IN  /\ S_tot_scores' = T2
                /\ S_all' = (out :> RowsFrom(T2, ts_max))
                /\ S_dist_all' = (out :> RowsFrom(DF_XLs, ts_max))
                /\ parse_pc' = "stored"
    /\ UNCHANGED <<restraints, stat2_dict, stat_files, out, fields, DF_XLs, S_comb_all,
                   S_comb_dist, skip, skipped>>
    /\ UNCHANGED <<ctorVars, exportVars, xlVars, lateVars>>

\* list(d.keys()) of a mapping: its keys in some order
RECURSIVE KeyList(_)
KeyList(K) ==
    IF K = {} THEN <<>>
    ELSE LET k == CHOOSE x \in K : TRUE IN <<k>> \o KeyList(K \ {k})

\* the keys are left in the order of the mapping
SortedKeys_unsorted(mapping) == KeyList(DOMAIN mapping)

\* np.sort(mapping.keys()): the directory paths in str order
SortedKeys(mapping) == NpSortStr(KeyList(DOMAIN mapping))

\* DF.iloc[::skip]
EveryNth(DF, n) == [columns |-> DF.columns, rows |-> Stride(DF.rows, 0, n)]

\* the distance table is cut with stride 1 whatever skip is
DistStride_one(n) == 1

\* the stride of line 725
DistStride(n) == n

\* hdbscan_clustering(selected_scores, skip) up to its call of the writers.
\* HDBSCAN.fit raises on a table without rows, assign on labels that are not as
\* many as the rows.
hdbscan_clustering ==
    /\ parse_pc = "stored"
    /\ LET S_comb_t == EveryNth(Concat(S_all, SortedKeys(S_all)), skip)
           S_dist_t == EveryNth(Concat(S_dist_all, SortedKeys(S_dist_all)), DistStride(skip))
       IN  IF \/ S_comb_t.rows = <<>>
              \/ restraints.XLs_restraint /\ Len(S_dist_t.rows) # Len(S_comb_t.rows)
           THEN /\ parse_pc' = "ValueError"
                /\ UNCHANGED <<S_comb_all, S_comb_dist, exportVars>>
           ELSE \E labels \in [1..Len(S_comb_t.rows) -> ParseLabels] :
                  /\ S_comb_all' = Assign(S_comb_t, "cluster", labels)
                  /\ S_comb_dist' = IF restraints.XLs_restraint
                                     THEN Assign(S_dist_t, "cluster", labels)
                                     ELSE S_comb_dist
                  /\ S_comb' = CountTable(S_comb_all')
                  /\ export_pc' = "clustered"
                  /\ parse_pc' = "clustered"
                  /\ UNCHANGED <<files, summary, warned>>
    /\ UNCHANGED <<restraints, stat2_dict, stat_files, out, fields, S_tot_scores, DF_XLs,
                   S_all, S_dist_all, skip, skipped>>
    /\ UNCHANGED <<ctorVars, xlVars, lateVars>>

ParseNext ==
    \/ get_restraint_fields
    \/ read_stats_detailed
    \/ read_traj_info
    \/ hdbscan_clustering
    \/ write_hdbscan_clustering
    \/ write_summary_hdbscan_clustering

(***************************************************************************)
(* hdbscan_clustering after read_stat_files has stored the trimmed tables   *)
(* of several trajectories : lines 490-496, 630-634, 708-727                *)
(***************************************************************************)

CombineDirs == {"run_1/", "run_2/", "run_10/"}

\* the most rows a trimmed table keeps
MaxKept == 2

\* the largest stride
MaxSkip == 2

\* lines 491-496: the trajectory number of a directory
TrajNumber(dir) ==
    IF Contains("run_", dir) THEN ParseFloat(Split(TrajOf(dir), "run_")[2]) ELSE 0

\* the score table stored for directory dir of the directories D: the rows at
\* the positions th, th + 1, ... of its table; the frame counter counts by one
\* or stays at 0
KeptScores(dir, D, n, repeat) ==
    [columns |-> <<"MC_frame", "rmf_frame_index", "Total_score", "traj", "half">>,
     rows    |-> [i \in 1..n |->
                    [MC_frame        |-> IF repeat THEN 0 ELSE th + i - 1,
                     rmf_frame_index |-> th + i - 1,
                     Total_score     |-> 100 + TrajNumber(dir),
                     traj            |-> TrajOf(dir),
                     half            |-> HalfOf(dir, KeyList(D))]]]

\* the distance table stored with it: the same rows; the one distance logged in
\* a trajectory is the number of the trajectory
KeptDistances(dir, n, repeat) ==
    [columns |-> <<"MC_frame", DistNames[1]>>,
     rows    |-> [i \in 1..n |->
                    [c \in {"MC_frame", DistNames[1]} |->
                        IF c = "MC_frame" THEN (IF repeat THEN 0 ELSE th + i - 1)
                        ELSE TrajNumber(dir)]]]

CombineInit ==
    /\ restraints = [XLs_restraint |-> TRUE, sum_XLs_restraint |-> TRUE,
                     Excluded_volume_restraint |-> FALSE,
                     sum_Excluded_volume_restraint |-> TRUE,
                     Connectivity_restraint |-> FALSE,
                     sum_Connectivity_restraint |-> TRUE]
    /\ \E D \in (SUBSET CombineDirs) \ {{}}, repeat \in BOOLEAN :
          \E n \in [D -> 0..MaxKept] :
             /\ S_all = [d \in D |-> KeptScores(d, D, n[d], repeat)]
             /\ S_dist_all = [d \in D |-> KeptDistances(d, n[d], repeat)]
    /\ skip \in 1..MaxSkip
    /\ stat2_dict = <<>> /\ stat_files = <<>> /\ out = "" /\ fields = <<>>
    /\ S_tot_scores = EmptyDF /\ DF_XLs = EmptyDF
    /\ S_comb_all = EmptyDF /\ S_comb_dist = EmptyDF /\ skipped = <<>>
    /\ parse_pc = "stored"

CombineNext ==
    \/ hdbscan_clustering
    \/ write_hdbscan_clustering
    \/ write_summary_hdbscan_clustering

(***************************************************************************)
(* read_traj_info, detection of the equilibration time : lines 584-634      *)
(* Rows are named by their label in the index of S_tot_scores.              *)
(***************************************************************************)

\* the most rows a score table has beyond th
MaxBeyond == 2

\* the most columns evaluated
MaxCols == 3

\* line 563: 'Total_score' and the sum columns
SelEntries == <<"Total_score", "EV_sum", "CR_sum", "XLs_sum">>

\* pd.DataFrame(S_scores, columns = ...): the index is 0, 1, ..., n - 1
RangeIndex(n) == [i \in 1..n |-> i - 1]

\* S.loc[a:] on labels: the rows whose label is a or more
LocFrom(index, a) == SelectSeq(index, LAMBDA l : l >= a)

\* the whole table is stored
SliceFrom_all(index, a) == index

\* DF[a:] by position
SliceFrom(index, a) == SubSeq(index, a + 1, Len(index))

\* detectEquilibration raised
Raised == -1

\* what detectEquilibration does with an array: it raises, or it returns an
\* index of the array (it raises on an array without values)
DetectorOutcomes(values) == {Raised} \cup 0..Min2(MaxEq, Len(values) - 1)

\* the index of a column the detector raised on is th
OnRaise_th(ts) == Append(ts, th)

\* lines 590-591: except: ts_eq.append(0)
OnRaise(ts) == Append(ts, 0)

\* np.max(ts_eq)
RECURSIVE NpMax(_)
NpMax(q) == IF Len(q) = 1 THEN q[1]
            ELSE LET m == NpMax(Tail(q)) IN IF q[1] >= m THEN q[1] ELSE m

EquilIdle ==
    /\ eq_index = <<>> /\ sel_entries = <<>> /\ ts_eq = <<>> /\ eq_given = <<>>
    /\ eq_raised = {} /\ eq_stored = <<>> /\ eq_pc = "idle"

EquilInit ==
    /\ eq_index \in {RangeIndex(n) : n \in 1..(th + MaxBeyond)}
    /\ sel_entries \in {SubSeq(SelEntries, 1, k) : k \in 1..MaxCols}
    /\ ts_eq = <<>> /\ eq_given = <<>> /\ eq_raised = {} /\ eq_stored = <<>>
    /\ eq_pc = "loop"

\* one pass of the loop of lines 585-591
detect_column ==
    /\ eq_pc = "loop"
    /\ Len(ts_eq) < Len(sel_entries)
    /\ LET values == LocFrom(eq_index, th)
       IN  /\ eq_given' = Append(eq_given, values)
           /\ \E t \in DetectorOutcomes(values) :
                 IF t = Raised
                 THEN /\ ts_eq' = OnRaise(ts_eq)
                      /\ eq_raised' = eq_raised \cup {Len(ts_eq) + 1}
                 ELSE /\ ts_eq' = Append(ts_eq, t)
                      /\ UNCHANGED eq_raised
    /\ UNCHANGED <<eq_index, sel_entries, eq_stored, eq_pc>>
    /\ UNCHANGED <<ctorVars, exportVars, xlVars, parseVars, convVars, poolVars, schemaVars>>

\* lines 593-630 after the loop: the cutoff and the stored table
store_trajectory ==
    /\ eq_pc = "loop"
    /\ Len(ts_eq) = Len(sel_entries)
    /\ LET ts_max == NpMax(ts_eq) + th
       IN  eq_stored' = SliceFrom(eq_index, ts_max)
    /\ eq_pc' = "stored"
    /\ UNCHANGED <<eq_index, sel_entries, ts_eq, eq_given, eq_raised>>
    /\ UNCHANGED <<ctorVars, exportVars, xlVars, parseVars, convVars, poolVars, schemaVars>>

EquilNext ==
    \/ detect_column
    \/ store_trajectory

(***************************************************************************)
(* plot_scores_distributions, the converged sample count : lines 950-994    *)
(***************************************************************************)

\* the largest mean of the minima of a subsample
MaxMean == 3

\* the subsample sizes for two halves of MinHalf scores
ConvSizes == Tail(SubsampleSizes(MinHalf, MinHalf))

\* np.mean and np.std of the 20 minima drawn at one size (random.sample)
MinimaStats == {<<mean, 1>> : mean \in 1..MaxMean}

\* lines 974-976: the test on the step from size s to the next (a row of RH1
\* and RH2 is <<size, mean, std>>)
Hit(rh1, rh2, s) ==
    LET dA == rh1[s][2] - rh1[s + 1][2]
        dB == rh2[s][2] - rh2[s + 1][2]
    IN  dA < rh1[s + 1][3] /\ dB < rh2[s + 1][2]

\* lines 972-981: the loop over the steps from s (s counted from 1)
RECURSIVE CountHits(_, _, _, _, _)
CountHits(rh1, rh2, s, hits, n) ==
    IF s > Len(rh1) - 1 THEN n
    ELSE LET h == IF Hit(rh1, rh2, s) THEN hits + 1 ELSE hits
         IN  CountHits(rh1, rh2, s + 1, h, IF h = 4 THEN rh1[s + 1][1] ELSE n)

ConvIdle == RH1 = <<>> /\ RH2 = <<>> /\ n_conv = 0 /\ conv_pc = "idle"

ConvInit == RH1 = <<>> /\ RH2 = <<>> /\ n_conv = 0 /\ conv_pc = "sampling"

\* one pass of the loop of lines 960-967
sample_minima ==
    /\ conv_pc = "sampling"
    /\ Len(RH1) < Len(ConvSizes)
    /\ LET m == ConvSizes[Len(RH1) + 1]
       IN  \E a \in MinimaStats, b \in MinimaStats :
              \* the mean of the minima of half B is MaxMean or one less and
              \* does not rise with the size
              /\ b[1] \in {MaxMean - 1, MaxMean}
              /\ RH2 # <<>> => b[1] <= Last(RH2)[2]
              /\ RH1' = Append(RH1, <<m, a[1], a[2]>>)
              /\ RH2' = Append(RH2, <<m, b[1], b[2]>>)
    /\ UNCHANGED <<n_conv, conv_pc>>
    /\ UNCHANGED <<ctorVars, exportVars, xlVars, parseVars, equilVars, poolVars, schemaVars>>

\* lines 969-994
converged_count ==
    /\ conv_pc = "sampling"
    /\ Len(RH1) = Len(ConvSizes)
    /\ n_conv' = CountHits(RH1, RH2, 1, 0, 0)
    /\ conv_pc' = "returned"
    /\ UNCHANGED <<RH1, RH2>>
    /\ UNCHANGED <<ctorVars, exportVars, xlVars, parseVars, equilVars, poolVars, schemaVars>>

ConvNext ==
    \/ sample_minima
    \/ converged_count

(***************************************************************************)
(* read_stat_files : lines 351-372, do_extract_models : lines 864-886       *)
(* The workers run read_traj_info (lines 480-634, with line 1097 of         *)
(* analyze_trajectory_XLs) and extract_models (lines 903-916).              *)
(***************************************************************************)

PoolDirs == {"run_1/", "run_2/", "a/", "b/"}

\* the most worker processes
MaxProc == 3

\* the most rows of gsms_info
MaxModels == 3

\* int(np.ceil(a / float(b)))
CeilDiv(a, b) == (a + b - 1) \div b

\* q[a:b] of Python for 0 <= a, 0 <= b
PySlice(q, a, b) == SubSeq(q, a + 1, Min2(b, Len(q)))

\* every worker gets ND items, ND rounded down
Slices_even(dirs, n) ==
    LET ND == Len(dirs) \div n
    IN  [k \in 1..n |-> PySlice(dirs, (k - 1) * ND, (k - 1) * ND + ND)]

\* lines 354-358: out_dirs_dict
Slices(dirs, n) ==
    LET ND == CeilDiv(Len(dirs), n)
    IN  [k \in 1..n |->
            IF k < n THEN PySlice(dirs, (k - 1) * ND, (k - 1) * ND + ND)
            ELSE PySlice(dirs, (n - 1) * ND, Len(dirs))]

\* every part has len // n rows, the rows left over are in no part
ArraySplit_floor(rows, n) ==
    LET q == Len(rows) \div n
    IN  [k \in 1..n |-> PySlice(rows, (k - 1) * q, k * q)]

\* np.array_split(gsms_info, n): the first len % n parts have one row more
ArraySplit(rows, n) ==
    LET q == Len(rows) \div n
        r == Len(rows) % n
    IN  [k \in 1..n |->
            LET start == (k - 1) * q + Min2(k - 1, r)
            IN  PySlice(rows, start, start + q + (IF k <= r THEN 1 ELSE 0))]

\* only the first process is joined
JoinList_first(n) == <<1>>

\* lines 371-372 and 882-883: the processes joined, in this order
JoinList(n) == [k \in 1..n |-> k]

\* the number of rows S_tot_scores[ts_max:] keeps of the trajectory of dir:
\* two of the trajectories named run_<number>, one of the others
PoolRows(dir) == IF Contains("run_", dir) THEN 2 ELSE 1

\* d[k] = v of a mapping
Store(d, k, v) == [x \in DOMAIN d \cup {k} |-> IF x = k THEN v ELSE d[x]]

PoolIdle ==
    /\ job = "" /\ items = <<>> /\ nproc = 1 /\ pool_nuisances = FALSE
    /\ out_dirs_dict = <<>> /\ processes = <<>> /\ XLs_nuis = <<>>
    /\ scores = <<>> /\ saved = <<>> /\ writes = <<>>
    /\ pool_pc = [at |-> "idle", k |-> 0]

PoolInit ==
    /\ job \in {"read_stat_files", "do_extract_models"}
    /\ nproc \in 1..MaxProc
    /\ pool_nuisances \in BOOLEAN
    /\ IF job = "read_stat_files"
       THEN items \in {NpSortStr(KeyList(D)) : D \in SUBSET PoolDirs}
       ELSE /\ items \in {[i \in 1..n |-> i] : n \in 0..MaxModels}
            /\ pool_nuisances = FALSE
    /\ out_dirs_dict = <<>> /\ processes = <<>> /\ XLs_nuis = <<>>
    /\ scores = <<>> /\ saved = <<>> /\ writes = <<>>
    /\ pool_pc = [at |-> "split", k |-> 0]

\* lines 354-364 and 869-875: the slices and the process objects
split_items ==
    /\ pool_pc.at = "split"
    /\ out_dirs_dict' = IF job = "read_stat_files" THEN Slices(items, nproc)
                        ELSE ArraySplit(items, nproc)
    /\ processes' = [k \in 1..nproc |-> [state |-> "new", done |-> 0, raised |-> FALSE]]
    /\ pool_pc' = [at |-> "start", k |-> 1]
    /\ UNCHANGED <<job, items, nproc, pool_nuisances, XLs_nuis, scores, saved, writes>>
    /\ UNCHANGED <<S_all, S_dist_all>>
    /\ UNCHANGED <<restraints, stat2_dict, stat_files, out, fields, S_tot_scores, DF_XLs,
                   S_comb_all, S_comb_dist, skip, skipped, parse_pc>>
    /\ UNCHANGED <<ctorVars, exportVars, xlVars, equilVars, convVars, schemaVars>>

\* lines 367-368 and 878-879: p.start() of the next process
start_process ==
    /\ pool_pc.at = "start"
    /\ processes' = [processes EXCEPT ![pool_pc.k].state = "running"]
    /\ pool_pc' = IF pool_pc.k < nproc THEN [at |-> "start", k |-> pool_pc.k + 1]
                  ELSE [at |-> "join", k |-> 1]
    /\ UNCHANGED <<job, items, nproc, pool_nuisances, out_dirs_dict, XLs_nuis, scores, saved, writes>>
    /\ UNCHANGED <<S_all, S_dist_all>>
    /\ UNCHANGED <<restraints, stat2_dict, stat_files, out, fields, S_tot_scores, DF_XLs,
                   S_comb_all, S_comb_dist, skip, skipped, parse_pc>>
    /\ UNCHANGED <<ctorVars, exportVars, xlVars, equilVars, convVars, schemaVars>>

\* one pass of the loop of read_traj_info in a worker: lines 489-634 for the
\* next directory of its slice, with the three writes of lines 1097, 630, 632
worker_read_traj_info ==
    /\ job = "read_stat_files"
    /\ \E w \in 1..nproc :
          /\ w <= Len(processes)
          /\ processes[w].state = "running"
          /\ processes[w].done < Len(out_dirs_dict[w])
          /\ LET dir == out_dirs_dict[w][processes[w].done + 1]
                 traj_number == TrajNumber(dir)
             IN  /\ IF pool_nuisances
                    THEN /\ XLs_nuis' = Store(XLs_nuis, traj_number, dir)
                         /\ writes' = writes \o << <<"XLs_nuis", traj_number, w>>,
                                                   <<"S_all", dir, w>>, <<"S_dist_all", dir, w>> >>
                    ELSE /\ UNCHANGED XLs_nuis
                         /\ writes' = writes \o << <<"S_all", dir, w>>, <<"S_dist_all", dir, w>> >>
                 /\ S_all' = Store(S_all, dir,
                                    KeptScores(dir, Range(items), PoolRows(dir), FALSE))
                 /\ S_dist_all' = Store(S_dist_all, dir,
                                         KeptDistances(dir, PoolRows(dir), FALSE))
          /\ processes' = [processes EXCEPT ![w].done = @ + 1]
    /\ UNCHANGED <<job, items, nproc, pool_nuisances, out_dirs_dict, scores, saved, pool_pc>>
    /\ UNCHANGED <<restraints, stat2_dict, stat_files, out, fields, S_tot_scores, DF_XLs,
                   S_comb_all, S_comb_dist, skip, skipped, parse_pc>>
    /\ UNCHANGED <<ctorVars, exportVars, xlVars, equilVars, convVars, schemaVars>>

\* one pass of the loop of extract_models in a worker: lines 907-916
worker_extract_models ==
    /\ job = "do_extract_models"
    /\ \E w \in 1..nproc :
          /\ w <= Len(processes)
          /\ processes[w].state = "running"
          /\ processes[w].done < Len(out_dirs_dict[w])
          /\ scores' = Append(scores, out_dirs_dict[w][processes[w].done + 1])
          /\ processes' = [processes EXCEPT ![w].done = @ + 1]
    /\ UNCHANGED <<job, items, nproc, pool_nuisances, out_dirs_dict, XLs_nuis, saved, writes, pool_pc>>
    /\ UNCHANGED <<S_all, S_dist_all>>
    /\ UNCHANGED <<restraints, stat2_dict, stat_files, out, fields, S_tot_scores, DF_XLs,
                   S_comb_all, S_comb_dist, skip, skipped, parse_pc>>
    /\ UNCHANGED <<ctorVars, exportVars, xlVars, equilVars, convVars, schemaVars>>

\* the loop of a worker is over and its process ends
worker_returns ==
    /\ \E w \in 1..nproc :
          /\ w <= Len(processes)
          /\ processes[w].state = "running"
          /\ processes[w].done = Len(out_dirs_dict[w])
          /\ processes' = [processes EXCEPT ![w].state = "exited"]
    /\ UNCHANGED <<job, items, nproc, pool_nuisances, out_dirs_dict, XLs_nuis, scores, saved, writes,
                   pool_pc>>
    /\ UNCHANGED <<S_all, S_dist_all>>
    /\ UNCHANGED <<restraints, stat2_dict, stat_files, out, fields, S_tot_scores, DF_XLs,
                   S_comb_all, S_comb_dist, skip, skipped, parse_pc>>
    /\ UNCHANGED <<ctorVars, exportVars, xlVars, equilVars, convVars, schemaVars>>

\* an exception in the pass of read_traj_info for the next directory: nothing
\* in the loop catches it, so it ends the process. The pass of extract_models
\* does not raise on a row of the selected-models tables: traj and rmf3_file
\* are str (line 787 has concatenated them), the frame numbers are numbers, and
\* os.system returns the status of rmf_slice.
worker_raises ==
    /\ job = "read_stat_files"
    /\ \E w \in 1..nproc :
          /\ w <= Len(processes)
          /\ processes[w].state = "running"
          /\ processes[w].done < Len(out_dirs_dict[w])
          /\ processes' = [processes EXCEPT ![w].state = "exited", ![w].raised = TRUE]
    /\ UNCHANGED <<job, items, nproc, pool_nuisances, out_dirs_dict, XLs_nuis, scores, saved, writes,
                   pool_pc>>
    /\ UNCHANGED <<S_all, S_dist_all>>
    /\ UNCHANGED <<restraints, stat2_dict, stat_files, out, fields, S_tot_scores, DF_XLs,
                   S_comb_all, S_comb_dist, skip, skipped, parse_pc>>
    /\ UNCHANGED <<ctorVars, exportVars, xlVars, equilVars, convVars, schemaVars>>

\* lines 371-372 and 882-883: p.join() returns when the process has ended
join_process ==
    /\ pool_pc.at = "join"
    /\ pool_pc.k <= Len(JoinList(nproc))
    /\ processes[JoinList(nproc)[pool_pc.k]].state = "exited"
    /\ pool_pc' = [at |-> "join", k |-> pool_pc.k + 1]
    /\ UNCHANGED <<job, items, nproc, pool_nuisances, out_dirs_dict, processes, XLs_nuis, scores,
                   saved, writes>>
    /\ UNCHANGED <<S_all, S_dist_all>>
    /\ UNCHANGED <<restraints, stat2_dict, stat_files, out, fields, S_tot_scores, DF_XLs,
                   S_comb_all, S_comb_dist, skip, skipped, parse_pc>>
    /\ UNCHANGED <<ctorVars, exportVars, xlVars, equilVars, convVars, schemaVars>>

\* after the last join: read_stat_files returns, do_extract_models writes the
\* scores (line 886)
finish_pool ==
    /\ pool_pc.at = "join"
    /\ pool_pc.k > Len(JoinList(nproc))
    /\ IF job = "read_stat_files"
       THEN /\ pool_pc' = [at |-> "returned", k |-> 0]
            /\ UNCHANGED saved
       ELSE /\ pool_pc' = [at |-> "saved", k |-> 0]
            /\ saved' = scores
    /\ UNCHANGED <<job, items, nproc, pool_nuisances, out_dirs_dict, processes, XLs_nuis, scores,
                   writes>>
    /\ UNCHANGED <<S_all, S_dist_all>>
    /\ UNCHANGED <<restraints, stat2_dict, stat_files, out, fields, S_tot_scores, DF_XLs,
                   S_comb_all, S_comb_dist, skip, skipped, parse_pc>>
    /\ UNCHANGED <<ctorVars, exportVars, xlVars, equilVars, convVars, schemaVars>>

PoolNext ==
    \/ split_items
    \/ start_process
    \/ worker_read_traj_info
    \/ worker_extract_models
    \/ worker_returns
    \/ worker_raises
    \/ join_process
    \/ finish_pool

(***************************************************************************)
(* Specifications                                                           *)
(***************************************************************************)

(***************************************************************************)
(* set_analyze_* : lines 102-166, get_restraint_fields : lines 176-296,     *)
(* the sum columns of read_stats_detailed : lines 410-444                   *)
(***************************************************************************)

\* most set_analyze_* calls made on one object
MaxCalls == 3

\* the restraint flags __init__ sets to False (lines 60-79)
RestraintFlags ==
    {"Connectivity_restraint", "Excluded_volume_restraint", "XLs_restraint",
     "XLs_restraint_nuisances", "Multiple_XLs_restraints", "atomic_XLs_restraint",
     "atomic_XLs_restraint_nuisances", "Multiple_atomic_XLs_restraints", "EM_restraint",
     "Distance_restraint", "Binding_restraint", "Occams_restraint",
     "Occams_positional_restraint", "Occams_positional_nuisances", "pEMAP_restraint",
     "DOPE_restraint", "MembraneExclusion_restraint", "MembraneSurfaceLocation_restraint"}

\* the summation flags __init__ sets to True (lines 82-91)
SumFlags ==
    {"sum_Connectivity_restraint", "sum_Excluded_volume_restraint", "sum_Binding_restraint",
     "sum_Distance_restraint", "sum_XLs_restraint", "sum_Occams_positional_restraint",
     "sum_atomic_XLs_restraint", "sum_DOPE_restraint", "sum_MembraneExclusion_restraint",
     "sum_MembraneSurfaceLocation_restraint"}

\* The get_fields calls of get_restraint_fields in the order of the code: the
\* flag that the set_analyze_* operation of the restraint sets, the flag the
\* call is guarded by, the pattern and the short name.
RestraintKinds ==
    <<[flag |-> "Excluded_volume_restraint", guard |-> "Excluded_volume_restraint",
       pattern |-> "ExcludedVolumeSphere", short |-> "EV"],
      [flag |-> "Connectivity_restraint", guard |-> "Connectivity_restraint",
       pattern |-> "ConnectivityRestraint", short |-> "CR"],
      [flag |-> "XLs_restraint", guard |-> "XLs_restraint",
       pattern |-> "CrossLinkingMassSpectrometryRestraint_Data_Score", short |-> "XLs"],
      [flag |-> "XLs_restraint", guard |-> "XLs_restraint",
       pattern |-> "CrossLinkingMassSpectrometryRestraint_PriorPsi_Score", short |-> "XLs_psi"],
      [flag |-> "atomic_XLs_restraint", guard |-> "atomic_XLs_restraint",
       pattern |-> "AtomicXLRestraint_Score", short |-> "atomic_XLs"],
      [flag |-> "EM_restraint", guard |-> "EM_restraint",
       pattern |-> "GaussianEMRestraint_EM", short |-> "EM3D"],
      [flag |-> "Occams_restraint", guard |-> "Occams_restraint",
       pattern |-> "OccamsRestraint_Score", short |-> "OccCon"],
      [flag |-> "Occams_positional_restraint", guard |-> "Occams_restraint",
       pattern |-> "OccamsPositionalRestraint_Score", short |-> "OccPos"],
      [flag |-> "pEMAP_restraint", guard |-> "pEMAP_restraint",
       pattern |-> "SimplifiedPEMAP_Score_None", short |-> "pEMAP"],
      [flag |-> "Distance_restraint", guard |-> "Distance_restraint",
       pattern |-> "DistanceRestraint_Score", short |-> "DR"],
      [flag |-> "Binding_restraint", guard |-> "Binding_restraint",
       pattern |-> "ResidueBindingRestraint_score", short |-> "BR"],
      [flag |-> "DOPE_restraint", guard |-> "DOPE_restraint",
       pattern |-> "DOPE_Restraint_score", short |-> "DOPE"],
      [flag |-> "MembraneExclusion_restraint", guard |-> "MembraneExclusion_restraint",
       pattern |-> "MembraneExclusionRestraint", short |-> "MEX"],
      [flag |-> "MembraneSurfaceLocation_restraint", guard |-> "MembraneSurfaceLocation_restraint",
       pattern |-> "MembraneSurfaceLocation", short |-> "MSL"]>>

\* The header of the sample stat file of a system with every restraint: the
\* mandatory fields, the score fields (fields 5 to 28), then the satisfaction,
\* distance and nuisance fields.
SampleLog ==
    <<"MonteCarlo_Nframe", "rmf_file", "rmf_frame_index", "Total_Score",
      "ExcludedVolumeSphere_A", "ExcludedVolumeSphere_B",
      "ConnectivityRestraint_A", "ConnectivityRestraint_B",
      "CrossLinkingMassSpectrometryRestraint_Data_Score_A",
      "CrossLinkingMassSpectrometryRestraint_Data_Score_B",
      "CrossLinkingMassSpectrometryRestraint_PriorPsi_Score_A",
      "AtomicXLRestraint_Score_A", "AtomicXLRestraint_Score_B",
      "AtomicXLRestraint_psi_Score",
      "GaussianEMRestraint_EM_A",
      "OccamsRestraint_Score_A", "OccamsPositionalRestraint_Score_A",
      "SimplifiedPEMAP_Score_None",
      "DistanceRestraint_Score_A", "DistanceRestraint_Score_B",
      "ResidueBindingRestraint_score_A", "ResidueBindingRestraint_score_B",
      "DOPE_Restraint_score_A", "DOPE_Restraint_score_B",
      "MembraneExclusionRestraint_A", "MembraneExclusionRestraint_B",
      "MembraneSurfaceLocation_A", "MembraneSurfaceLocation_B",
      "OccamsRestraint_satisfied", DistNames[1], NuisNames[1], NuisNames[2]>>

\* The value of field k in the one record of the log: the score fields have
\* the powers of two, so that a sum tells which fields were added.
SampleValue(k) == IF k \in 5..28 THEN 2 ^ (k - 5) ELSE k

\* get_fields on the sample log, once for every kind
SchemaFields ==
    [i \in 1..Len(RestraintKinds) |->
        GetFields(SampleLog, RestraintKinds[i].pattern, RestraintKinds[i].short)]

\* lines 213-218: the names and the ids of the nuisance fields
SchemaNuis ==
    LET ids == SelectSeq([k \in 1..Len(SampleLog) |-> k],
                   LAMBDA k : /\ Contains("CrossLinkingMassSpectrometryRestraint_Psi_", SampleLog[k])
                              /\ ~Contains("MonteCarlo_", SampleLog[k]))
    IN  [names  |-> [i \in 1..Len(ids) |->
                        "Psi_vals_" \o Last(Split(SampleLog[ids[i]],
                                        "CrossLinkingMassSpectrometryRestraint_Psi_"))],
         fields |-> ids]

\* lines 183-193: the mandatory fields
SchemaHead ==
    [names  |-> <<"MC_frame", "rmf_frame_index", "Total_score">>,
     fields |-> GetFieldId(SampleLog, "MonteCarlo_Nframe")
                    \o GetFieldId(SampleLog, "rmf_frame_index")
                    \o GetFieldId(SampleLog, "Total_Score")]

RECURSIVE JoinSegs(_)
JoinSegs(segs) ==
    IF segs = <<>> THEN NoFields
    ELSE LET rest == JoinSegs(Tail(segs))
         IN  [names  |-> Head(segs).names \o rest.names,
              fields |-> Head(segs).fields \o rest.fields]

\* get_restraint_fields() of an object with the flags o. Line 234 reads the
\* name name_i, which is not defined; line 251 reads self.XLs_info, which only
\* the cross-link branch sets. What was stored before an exception stays.
GetRestraintFieldsOf(o) ==
    LET seg(i) == IF o[RestraintKinds[i].guard] THEN SchemaFields[i] ELSE NoFields
        nuis == IF o["XLs_restraint"] /\ o["XLs_restraint_nuisances"]
                THEN SchemaNuis ELSE NoFields
        first == <<SchemaHead, seg(1), seg(2), seg(3), seg(4), nuis, seg(5)>>
        rest == [i \in 1..(Len(RestraintKinds) - 5) |-> seg(i + 5)]
        error == IF o["atomic_XLs_restraint"] THEN "NameError"
                 ELSE IF ~o["XLs_restraint"] THEN "AttributeError"
                 ELSE ""
        all == JoinSegs(IF error = "" THEN first \o rest ELSE first)
    IN  [error |-> error, restraint_names |-> all.names, all_fields |-> all.fields]

\* the sum columns of lines 414-444, in the order of the code
WithAllSums(DF, o) ==
    LET AddSum(T, on, key, name) == IF on THEN Assign(T, name, AddRestraintType(T, key)) ELSE T
        T1 == AddSum(DF, o["XLs_restraint"] /\ o["sum_XLs_restraint"], "XLs_", "XLs_sum")
        T2 == AddSum(T1, o["atomic_XLs_restraint"] /\ o["sum_atomic_XLs_restraint"],
                     "atomic_XLs_", "atomic_XLs_sum")
        T3 == AddSum(T2, o["Excluded_volume_restraint"] /\ o["sum_Excluded_volume_restraint"],
                     "EV_", "EV_sum")
        T4 == AddSum(T3, o["Connectivity_restraint"] /\ o["sum_Connectivity_restraint"],
                     "CR_", "CR_sum")
        T5 == AddSum(T4, o["Binding_restraint"] /\ o["sum_Binding_restraint"], "BR_", "BR_sum")
        T6 == AddSum(T5, o["Distance_restraint"] /\ o["sum_Distance_restraint"], "DR_", "DR_sum")
        T7 == AddSum(T6, o["MembraneExclusion_restraint"] /\ o["sum_MembraneExclusion_restraint"],
                     "MEX_", "MEX_sum")
    IN  AddSum(T7, o["MembraneExclusion_restraint"] /\ o["sum_MembraneExclusion_restraint"],
               "MSL_", "MSL_sum")

SchemaIdle ==
    /\ opts = <<>> /\ ncalls = 0 /\ schema = <<>> /\ score_table = EmptyDF
    /\ schema_pc = "idle"

\* the object as __init__ leaves it
SchemaInit ==
    /\ opts = [f \in RestraintFlags \cup SumFlags |-> f \in SumFlags]
    /\ ncalls = 0
    /\ schema = <<>>
    /\ score_table = EmptyDF
    /\ schema_pc = "new"

\* a set_analyze_* call that sets the flags on to True and the flags off to False
SetAnalyze(on, off) ==
    /\ schema_pc = "new"
    /\ ncalls < MaxCalls
    /\ opts' = [f \in DOMAIN opts |-> IF f \in on THEN TRUE
                                      ELSE IF f \in off THEN FALSE ELSE opts[f]]
    /\ ncalls' = ncalls + 1
    /\ UNCHANGED <<schema, score_table, schema_pc>>
    /\ UNCHANGED <<ctorVars, exportVars, xlVars, parseVars, equilVars, convVars, poolVars>>

\* set_analyze_XLs_restraint(get_nuisances, Multiple_XLs_restraints)
set_analyze_XLs_restraint ==
    \E get_nuisances \in BOOLEAN, Multiple \in BOOLEAN :
        SetAnalyze({"XLs_restraint"}
                      \cup (IF get_nuisances THEN {"XLs_restraint_nuisances"} ELSE {})
                      \cup (IF Multiple THEN {"Multiple_XLs_restraints"} ELSE {}),
                   IF Multiple THEN {"sum_XLs_restraint"} ELSE {})

\* set_analyze_atomic_XLs_restraint(get_nuisances, Multiple_atomic_XLs_restraints)
set_analyze_atomic_XLs_restraint ==
    \E get_nuisances \in BOOLEAN, Multiple \in BOOLEAN :
        SetAnalyze({"atomic_XLs_restraint"}
                      \cup (IF get_nuisances THEN {"atomic_XLs_restraint_nuisances"} ELSE {})
                      \cup (IF Multiple THEN {"Multiple_atomic_XLs_restraints"} ELSE {}),
                   IF Multiple THEN {"sum_atomic_XLs_restraint"} ELSE {})

set_analyze_Connectivity_restraint == SetAnalyze({"Connectivity_restraint"}, {})

set_analyze_Excluded_volume_restraint == SetAnalyze({"Excluded_volume_restraint"}, {})

set_analyze_EM_restraint == SetAnalyze({"EM_restraint"}, {})

set_analyze_Distance_restraint == SetAnalyze({"Distance_restraint"}, {})

set_analyze_Binding_restraint == SetAnalyze({"Binding_restraint"}, {})

set_analyze_Occams_restraint == SetAnalyze({"Occams_restraint"}, {})

set_analyze_Occams_positional_restraint ==
    SetAnalyze({"Occams_positional_restraint", "Occams_positional_nuisances"}, {})

set_analyze_pEMAP_restraint == SetAnalyze({"pEMAP_restraint"}, {})

set_analyze_DOPE_restraint == SetAnalyze({"DOPE_restraint"}, {})

set_analyze_MembraneExclusion_restraint == SetAnalyze({"MembraneExclusion_restraint"}, {})

set_analyze_MembraneSurfaceLocation_restraint ==
    SetAnalyze({"MembraneSurfaceLocation_restraint"}, {})

\* get_restraint_fields() after the set_analyze_* calls
get_restraint_fields_of_object ==
    /\ schema_pc = "new"
    /\ schema' = GetRestraintFieldsOf(opts)
    /\ schema_pc' = IF schema'.error = "" THEN "fields" ELSE schema'.error
    /\ UNCHANGED <<opts, ncalls, score_table>>
    /\ UNCHANGED <<ctorVars, exportVars, xlVars, parseVars, equilVars, convVars, poolVars>>

\* read_stats_detailed on a log of one record: lines 397, 410-444
read_stats_sums ==
    /\ schema_pc = "fields"
    /\ LET s0 == [i \in 1..Len(schema.all_fields) |-> SampleValue(schema.all_fields[i])]
                    \o <<"run_1", "0.rmf3">>
           DF == DataFrame(<<s0>>, schema.restraint_names \o <<"traj", "rmf3_file">>)
       IN  score_table' = WithAllSums(DF, opts)
    /\ schema_pc' = "parsed"
    /\ UNCHANGED <<opts, ncalls, schema>>
    /\ UNCHANGED <<ctorVars, exportVars, xlVars, parseVars, equilVars, convVars, poolVars>>

SchemaNext ==
    \/ set_analyze_XLs_restraint
    \/ set_analyze_atomic_XLs_restraint
    \/ set_analyze_Connectivity_restraint
    \/ set_analyze_Excluded_volume_restraint
    \/ set_analyze_EM_restraint
    \/ set_analyze_Distance_restraint
    \/ set_analyze_Binding_restraint
    \/ set_analyze_Occams_restraint
    \/ set_analyze_Occams_positional_restraint
    \/ set_analyze_pEMAP_restraint
    \/ set_analyze_DOPE_restraint
    \/ set_analyze_MembraneExclusion_restraint
    \/ set_analyze_MembraneSurfaceLocation_restraint
    \/ get_restraint_fields_of_object
    \/ read_stats_sums

InitCtor == CtorInit /\ ExportIdle /\ XLIdle /\ ParseIdle /\ EquilIdle /\ ConvIdle /\ PoolIdle /\ SchemaIdle

SpecCtor == InitCtor /\ [][CtorNext]_vars

InitExport == CtorIdle /\ XLIdle /\ ParseIdle /\ ExportInit /\ EquilIdle /\ ConvIdle /\ PoolIdle /\ SchemaIdle

InitXL == CtorIdle /\ ExportIdle /\ ParseIdle /\ XLInit /\ EquilIdle /\ ConvIdle /\ PoolIdle /\ SchemaIdle

SpecXL == InitXL /\ [][XLNext]_vars

SpecExport == InitExport /\ [][ExportNext]_vars

InitParse == CtorIdle /\ ExportIdle /\ XLIdle /\ ParseInit /\ EquilIdle /\ ConvIdle /\ PoolIdle /\ SchemaIdle

SpecParse == InitParse /\ [][ParseNext]_vars

InitCombine == CtorIdle /\ ExportIdle /\ XLIdle /\ CombineInit /\ EquilIdle /\ ConvIdle /\ PoolIdle /\ SchemaIdle

SpecCombine == InitCombine /\ [][CombineNext]_vars

InitEquil == CtorIdle /\ ExportIdle /\ XLIdle /\ ParseIdle /\ EquilInit /\ ConvIdle /\ PoolIdle /\ SchemaIdle

SpecEquil == InitEquil /\ [][EquilNext]_vars

InitConv == CtorIdle /\ ExportIdle /\ XLIdle /\ ParseIdle /\ EquilIdle /\ ConvInit /\ PoolIdle /\ SchemaIdle

SpecConv == InitConv /\ [][ConvNext]_vars

InitPool == CtorIdle /\ ExportIdle /\ XLIdle /\ ParseIdle /\ EquilIdle /\ ConvIdle /\ PoolInit /\ SchemaIdle

SpecPool == InitPool /\ [][PoolNext]_vars

InitSchema == CtorIdle /\ ExportIdle /\ XLIdle /\ ParseIdle /\ EquilIdle /\ ConvIdle /\ PoolIdle /\ SchemaInit

SpecSchema == InitSchema /\ [][SchemaNext]_vars

(***************************************************************************)
(* Properties of __init__                                                   *)
(***************************************************************************)

Ascending(s) == \A i \in 1..(Len(s) - 1) : StrLeq(s[i], s[i + 1])

Distinct(s) == \A i, j \in 1..Len(s) : i # j => s[i] # s[j]

\* C1: once the object is built, the list s that takes its even (0-based) ranks
\* from half A and its odd ranks from half B, in order, is the ascending ordering
\* of the given directories; [d0,d1,d2,d3] gives A = {d0,d2} and
\* B = {d1,d3}; for distinct directories the halves are disjoint and cover the list.
C1_HalvesByRankParity ==
    ctor_pc \in {"built", "twin_built"} =>
        /\ Len(dir_halfA) = (Len(out_dirs) + 1) \div 2
        /\ Len(dir_halfB) = Len(out_dirs) \div 2
        /\ LET s == [i \in 1..Len(out_dirs) |->
                        IF (i - 1) % 2 = 0 THEN dir_halfA[((i - 1) \div 2) + 1]
                                           ELSE dir_halfB[((i - 1) \div 2) + 1]]
           IN  /\ Ascending(s)
               /\ \A d \in Dirs : Count(s, d) = Count(out_dirs, d)
        /\ Range(out_dirs) = {"run_1/", "run_10/", "run_2/", "run_3/"} /\ Len(out_dirs) = 4 =>
              /\ Range(dir_halfA) = {"run_1/", "run_2/"}
              /\ Range(dir_halfB) = {"run_10/", "run_3/"}
        /\ Distinct(out_dirs) =>
              /\ Range(dir_halfA) \cap Range(dir_halfB) = {}
              /\ Range(dir_halfA) \cup Range(dir_halfB) = Range(out_dirs)

\* four distinct directories given out of order, and the object is built
C1_Witness ==
    /\ ctor_pc = "built"
    /\ out_dirs = <<"run_3/", "run_10/", "run_2/", "run_1/">>
    /\ dir_halfA = <<"run_1/", "run_2/">>

\* C2: two objects built from two orderings of the same directories have the
\* same half A and the same half B.
C2_HalvesIndependentOfOrder ==
    ctor_pc = "twin_built" =>
        /\ Range(dir_halfA) = Range(twin_halfA)
        /\ Range(dir_halfB) = Range(twin_halfB)
        /\ dir_halfA = twin_halfA
        /\ dir_halfB = twin_halfB

\* both objects are built and the two orderings differ
C2_Witness ==
    /\ ctor_pc = "twin_built"
    /\ out_dirs # twin_out_dirs
    /\ Len(out_dirs) >= 3
    /\ Distinct(out_dirs)

(***************************************************************************)
(* Properties of the export                                                 *)
(***************************************************************************)

Written == export_pc \in {"written", "summarised"}

FilesOf(cl) == {f \in files : f.cluster = cl}

\* the number of rows of the file of that kind, half and cluster (0 if not written)
FileRows(kd, h, cl) ==
    LET F == {f \in files : f.kind = kd /\ f.half = h /\ f.cluster = cl}
    IN  IF F = {} THEN 0 ELSE NRows((CHOOSE f \in F : TRUE).rows)

ClusterRows(cl) == S_comb[<<cl, "A">>] + S_comb[<<cl, "B">>] + S_comb[<<cl, "unset">>]

\* C5: after write_hdbscan_clustering a cluster (label >= 0) has selection files
\* if and only if it has at least 10 rows of half A and at least 10 rows of half
\* B, and then it has all of them; 9 and 15 rows give no file, 10 and 10 give them.
C5_FilesIffBothHalvesTen ==
    Written =>
        \A cl \in 0..MaxCluster :
            /\ (FilesOf(cl) # {}) <=> (S_comb[<<cl, "A">>] >= 10 /\ S_comb[<<cl, "B">>] >= 10)
            /\ FilesOf(cl) # {} =>
                  \A kd \in FileKinds, h \in {"A", "B"} :
                      \E f \in FilesOf(cl) : f.kind = kd /\ f.half = h
            /\ S_comb[<<cl, "A">>] = 9 /\ S_comb[<<cl, "B">>] = 15 => FilesOf(cl) = {}
            /\ S_comb[<<cl, "A">>] = 10 /\ S_comb[<<cl, "B">>] = 10 => FilesOf(cl) # {}

\* one cluster with 9 and 15 rows and one with 10 and 10 rows have been written
C5_Witness ==
    /\ export_pc = "written"
    /\ S_comb[<<0, "A">>] = 9 /\ S_comb[<<0, "B">>] = 15
    /\ S_comb[<<1, "A">>] = 10 /\ S_comb[<<1, "B">>] = 10
    /\ FilesOf(0) = {} /\ FilesOf(1) # {}

\* C6 as stated: a qualifying cluster of 40000 rows has exactly 29999 rows in the
\* random output of half A and exactly 29999 in that of half B; for a qualifying
\* cluster of 20000 rows the two random outputs together hold every row.
C6_AsStated ==
    Written =>
        \A cl \in 0..MaxCluster :
            FilesOf(cl) # {} =>
                /\ ClusterRows(cl) = 40000 =>
                      /\ FileRows("random_csv", "A", cl) = 29999
                      /\ FileRows("random_csv", "B", cl) = 29999
                /\ ClusterRows(cl) = 20000 =>
                      FileRows("random_csv", "A", cl) + FileRows("random_csv", "B", cl) = 20000

\* C6 amended: for a qualifying cluster of at least 30000 rows (so of 40000) one
\* sample of 29999 rows of the whole cluster is split by half label: the two
\* random outputs together hold at most 29999 rows, and exactly 29999 less the
\* sampled rows without a half label; for a qualifying cluster of fewer than
\* 30000 rows (so of 20000) they hold every row of half A and every row of half B.
C6_SampleCapIsPerCluster ==
    Written =>
        \A cl \in 0..MaxCluster :
            FilesOf(cl) # {} =>
                LET rA == FileRows("random_csv", "A", cl)
                    rB == FileRows("random_csv", "B", cl)
                IN  /\ ClusterRows(cl) >= 30000 =>
                          /\ rA + rB <= 29999
                          /\ rA + rB >= 29999 - S_comb[<<cl, "unset">>]
                          /\ rA <= S_comb[<<cl, "A">>] /\ rB <= S_comb[<<cl, "B">>]
                    /\ ClusterRows(cl) < 30000 =>
                          /\ rA = S_comb[<<cl, "A">>]
                          /\ rB = S_comb[<<cl, "B">>]

\* a qualifying cluster of 40000 rows has been written, 5 of the sampled rows in half B
C6_Witness ==
    /\ export_pc = "written"
    /\ S_comb[<<0, "A">>] = 39990 /\ S_comb[<<0, "B">>] = 10 /\ S_comb[<<0, "unset">>] = 0
    /\ FileRows("random_csv", "B", 0) = 5
    /\ FileRows("random_csv", "A", 0) = 29994

\* C7: no file of the selected models belongs to label -1 or holds a row of label
\* -1, whatever the sizes of the noise halves, and once the summary is written it
\* has a row for label -1 whenever the table has a row of that label.
C7_NoiseExcludedButSummarised ==
    /\ Written =>
          \A f \in files :
              /\ f.cluster # -1
              /\ \A h \in Halves : f.rows[<<-1, h>>] = 0
    /\ export_pc = "summarised" =>
          (ClusterRows(-1) > 0 =>
              \E r \in summary : r.cluster = -1 /\ r.n_models = ClusterRows(-1))

\* noise with 10 rows in each half, summarised, beside a cluster that was written
C7_Witness ==
    /\ export_pc = "summarised"
    /\ S_comb[<<-1, "A">>] = 10 /\ S_comb[<<-1, "B">>] = 10
    /\ files # {}
    /\ \E r \in summary : r.cluster = -1 /\ r.n_A = 10

\* C22: once write_hdbscan_clustering has returned, the warning was printed if
\* and only if no cluster (label 0 or more) has 10 rows at least in each half,
\* and then no file was written.
C22_WarningIffNoneSelected ==
    /\ export_pc = "clustered" => ~warned
    /\ Written =>
          /\ warned <=> (\A cl \in 0..MaxCluster :
                            S_comb[<<cl, "A">>] < 10 \/ S_comb[<<cl, "B">>] < 10)
          /\ warned => files = {}

\* the warning after a table whose noise rows alone are ten in each half and
\* whose cluster 0 has 9 rows in half A and 15 in half B
C22_Witness ==
    /\ export_pc = "written"
    /\ warned
    /\ S_comb[<<-1, "A">>] = 10 /\ S_comb[<<-1, "B">>] = 10
    /\ S_comb[<<0, "A">>] = 9 /\ S_comb[<<0, "B">>] = 15
    /\ files = {}

\* C28: for every cluster written (ten rows or more in each half) the step of
\* the subsample sizes is positive, the sizes go up by the step, two sizes at
\* least are left when the first is dropped, and every size m that is drawn
\* has 1 <= m < min(|half A|, |half B|).
C28_SubsampleSizesCanBeDrawn ==
    Written =>
        \A cl \in Selected(S_comb) :
            LET nA == S_comb[<<cl, "A">>]
                nB == S_comb[<<cl, "B">>]
                M == SubsampleSizes(nA, nB)
            IN  /\ SubsampleStep(nA, nB) >= 1
                /\ Len(Tail(M)) >= 2
                /\ \A i \in 2..Len(M) :
                      /\ M[i] = M[i - 1] + SubsampleStep(nA, nB)
                      /\ 1 <= M[i] /\ M[i] < Min2(nA, nB)

\* cluster 0 with 15 rows in each half (sizes 0, 1, ..., 14, the 0 dropped) and
\* cluster 1 with 10 rows in each half (sizes 1, 2, ..., 9, the 1 dropped)
C28_Witness ==
    /\ export_pc = "written"
    /\ Selected(S_comb) = {0, 1}
    /\ S_comb[<<0, "A">>] = 15 /\ S_comb[<<0, "B">>] = 15
    /\ S_comb[<<1, "A">>] = 10 /\ S_comb[<<1, "B">>] = 10
    /\ SubsampleSizes(15, 15) = [i \in 1..15 |-> i - 1]
    /\ SubsampleSizes(10, 10) = [i \in 1..9 |-> i]

(***************************************************************************)
(* Properties of the cross-link satisfaction                                *)
(***************************************************************************)

\* the logical cross-links of the sample log: cross-link 1 has two alternatives
Link1 == {DistNames[1], DistNames[2]}

Link2 == {DistNames[3]}

\* the logical cross-links a satisfaction column monitors: all of them, those of
\* one type (DSSO is cross-link 1, EDC is cross-link 2) or those of one nuisance
\* family (PSIA is cross-link 1, PSIB is cross-link 2)
MonitoredLinks(n) ==
    IF n \in {"XLs_satif_DSSO", "XLs_satif_A"} THEN {Link1}
    ELSE IF n \in {"XLs_satif_EDC", "XLs_satif_B"} THEN {Link2}
    ELSE {Link1, Link2}

\* the cutoff of a satisfaction column: that of its type, else the first one given
ColumnCutoff(n) ==
    IF n = "XLs_satif_DSSO" THEN 2
    ELSE IF n = "XLs_satif_EDC" THEN 1
    ELSE xl_cfg.XLs_cutoffs[1][2]

XLComputed == xl_pc = "done" /\ XLs_satif.error = ""

\* C8: every computed satisfaction value is the number of monitored instances
\* (distance columns, or logical cross-links under ambiguity) within the cutoff,
\* a distance equal to the cutoff included, over the number of monitored
\* instances, which is positive; so the value is in [0,1].
C8_SatisfactionIsFraction ==
    XLComputed =>
        \A n \in DOMAIN XLs_satif.columns, f \in Frames :
            LET v == XLs_satif.columns[n][f]
                cols == UNION MonitoredLinks(n)
                hitLinks == {L \in MonitoredLinks(n) :
                                \E c \in L : S_dist[f][c] <= ColumnCutoff(n)}
                hitCols == {c \in cols : S_dist[f][c] <= ColumnCutoff(n)}
            IN  /\ v.den > 0 /\ 0 <= v.num /\ v.num <= v.den
                /\ IF xl_cfg.ambiguous_XLs_restraint
                   THEN v.den = Cardinality(MonitoredLinks(n)) /\ v.num = Cardinality(hitLinks)
                   ELSE v.den = Cardinality(cols) /\ v.num = Cardinality(hitCols)

\* without ambiguity, one distance equals the cutoff and is the only one counted
C8_Witness ==
    /\ XLComputed
    /\ ~xl_cfg.ambiguous_XLs_restraint /\ ~xl_cfg.Multiple_XLs_restraints
    /\ ~xl_cfg.XLs_restraint_nuisances
    /\ xl_cfg.XLs_cutoffs[1][2] = 2
    /\ S_dist[1][DistNames[1]] = 2 /\ S_dist[1][DistNames[2]] = 3 /\ S_dist[1][DistNames[3]] = 3
    /\ XLs_satif.columns["XLs_satif"][1] = [num |-> 1, den |-> 3]

\* the smallest distance of the alternatives of a cross-link in a frame
LinkMin(f, L) == CHOOSE d \in {S_dist[f][c] : c \in L} : \A c \in L : d <= S_dist[f][c]

\* C9: under ambiguity every logical cross-link counts once (the denominator is the
\* number of cross-links, not of alternatives), a cross-link counts as satisfied
\* exactly when its smallest alternative is within the cutoff, and two frames with
\* the same minima per cross-link get the same satisfaction value.
C9_AmbiguityUsesGroupMinimum ==
    XLComputed /\ xl_cfg.ambiguous_XLs_restraint =>
        \A n \in DOMAIN XLs_satif.columns :
            /\ \A f \in Frames :
                  /\ XLs_satif.columns[n][f].den = Cardinality(MonitoredLinks(n))
                  /\ XLs_satif.columns[n][f].num =
                        Cardinality({L \in MonitoredLinks(n) : LinkMin(f, L) <= ColumnCutoff(n)})
            /\ \A f, g \in Frames :
                  (\A L \in MonitoredLinks(n) : LinkMin(f, L) = LinkMin(g, L)) =>
                      XLs_satif.columns[n][f] = XLs_satif.columns[n][g]

\* two frames whose cross-link 1 has the same minimum and different other alternatives
C9_Witness ==
    /\ XLComputed /\ xl_cfg.ambiguous_XLs_restraint
    /\ xl_cfg.XLs_cutoffs[1][2] = 2
    /\ S_dist[1][DistNames[1]] = 1 /\ S_dist[1][DistNames[2]] = 3
    /\ S_dist[2][DistNames[1]] = 1 /\ S_dist[2][DistNames[2]] = 2
    /\ S_dist[1][DistNames[3]] = S_dist[2][DistNames[3]]
    /\ "XLs_satif" \in DOMAIN XLs_satif.columns
    /\ XLs_satif.columns["XLs_satif"][1] = XLs_satif.columns["XLs_satif"][2]
    /\ XLs_satif.columns["XLs_satif"][1].den = 2

\* the number of groups of the mapping G (id -> columns) that hold column c
GroupsHolding(G, c) == Cardinality({id \in DOMAIN G : c \in G[id]})

\* C23: in the mapping of check_XLs_ambiguity every distance column is in
\* exactly one group when the cross-links are one partition, and in one group
\* at most of every restraint type when they are partitioned by type; a
\* nuisance column is in no group.
C23_OneGroupPerColumn ==
    (xl_pc \in {"ready", "done"} /\ xl_cfg.ambiguous_XLs_restraint) =>
        IF xl_cfg.Multiple_XLs_restraints
        THEN \A t \in DOMAIN ambiguous_XLs_dict :
                /\ \A i \in 1..Len(DistNames) :
                      GroupsHolding(ambiguous_XLs_dict[t], DistNames[i]) <= 1
                /\ \A i \in 1..Len(NuisNames) :
                      GroupsHolding(ambiguous_XLs_dict[t], NuisNames[i]) = 0
        ELSE /\ \A i \in 1..Len(DistNames) :
                   GroupsHolding(ambiguous_XLs_dict, DistNames[i]) = 1
             /\ \A i \in 1..Len(NuisNames) :
                   GroupsHolding(ambiguous_XLs_dict, NuisNames[i]) = 0

\* one partition, nuisance columns among the keys: the two alternatives of
\* cross-link 1 are one group, cross-link 2 another
C23_Witness ==
    /\ xl_pc = "ready"
    /\ xl_cfg.ambiguous_XLs_restraint /\ ~xl_cfg.Multiple_XLs_restraints
    /\ xl_cfg.XLs_restraint_nuisances
    /\ DOMAIN ambiguous_XLs_dict = {"1", "2"}
    /\ ambiguous_XLs_dict["1"] = {DistNames[1], DistNames[2]}
    /\ ambiguous_XLs_dict["2"] = {DistNames[3]}

(***************************************************************************)
(* Properties of the score tables                                           *)
(***************************************************************************)

\* the id of the header field called name
FieldOf(name) == CHOOSE k \in 1..Len(stat2_dict) : stat2_dict[k] = name

\* the positions <<file, line>> of the frame records of the stat files
LogPositions ==
    UNION {{<<j, i>> : i \in {x \in 2..Len(stat_files[j]) : stat_files[j][x].ok}} :
              j \in 1..Len(stat_files)}

LogRecord(pos) == stat_files[pos[1]][pos[2]].d

\* a score table exists from the return of read_stats_detailed on
TableBuilt == parse_pc \in {"parsed", "stored", "clustered"}

MCFrames(T) == [i \in 1..Len(T.rows) |-> T.rows[i]["MC_frame"]]

StrictlyAscendingFrames(T) ==
    \A i \in 1..(Len(T.rows) - 1) : MCFrames(T)[i] < MCFrames(T)[i + 1]

NonDecreasingFrames(T) ==
    \A i \in 1..(Len(T.rows) - 1) : MCFrames(T)[i] <= MCFrames(T)[i + 1]

\* no two frame records of the stat files carry the same frame index
DistinctLogFrames ==
    LET P == LogPositions
        k == FieldOf("MonteCarlo_Nframe")
    IN  Cardinality({LogRecord(p)[k] : p \in P}) = Cardinality(P)

\* C3 as stated: the frame column of the table of read_stats_detailed and of the
\* stored trimmed table is strictly ascending, whatever the stat files hold.
C3_AsStated ==
    TableBuilt =>
        /\ StrictlyAscendingFrames(S_tot_scores)
        /\ \A d \in DOMAIN S_all : StrictlyAscendingFrames(S_all[d])

\* C3 (amended): for every order of the files and of their lines, the frame column
\* of the table of read_stats_detailed and of the stored trimmed table never
\* decreases, and it is strictly ascending when no two frame records of the stat
\* files carry the same frame index.
C3_FramesAscending ==
    TableBuilt =>
        /\ NonDecreasingFrames(S_tot_scores)
        /\ \A d \in DOMAIN S_all : NonDecreasingFrames(S_all[d])
        /\ DistinctLogFrames =>
              /\ StrictlyAscendingFrames(S_tot_scores)
              /\ \A d \in DOMAIN S_all : StrictlyAscendingFrames(S_all[d])

\* a trajectory logged in reverse order, counting by ten, whose stored trimmed
\* table keeps two rows in ascending order
C3_Witness ==
    /\ parse_pc = "stored"
    /\ Len(stat_files) = 1
    /\ stat_files[1][2].ok /\ stat_files[1][3].ok
    /\ ParseFloat(stat_files[1][2].d[FieldOf("MonteCarlo_Nframe")])
          > ParseFloat(stat_files[1][3].d[FieldOf("MonteCarlo_Nframe")])
    /\ DistinctLogFrames
    /\ MCFrames(S_all[out]) = <<500, 510>>

\* the positions <<file, line>> of the frame records with no invalid line before
\* them in their file
ReadPositions == {p \in LogPositions : \A i \in 1..p[2] : stat_files[p[1]][i].ok}

\* the first invalid line of every stat file that has one
FirstInvalid ==
    UNION {{<<j, i>> : i \in {x \in 1..Len(stat_files[j]) :
                                /\ ~stat_files[j][x].ok
                                /\ \A y \in 1..(x - 1) : stat_files[j][y].ok}} :
              j \in 1..Len(stat_files)}

HeaderComplete == MandatoryFields \subseteq Range(stat2_dict)

C14_AsStated == parse_pc = "fields" => HeaderComplete

\* what the frame records of the stat files log in the fields called names
Logged(names) ==
    LET ks == [n \in 1..Len(names) |-> FieldOf(names[n])] \o <<>>
    IN  {[n \in 1..Len(names) |-> ParseFloat(LogRecord(p)[ks[n]])] : p \in LogPositions}

\* the rows of T carry the total score logged in the record they were parsed
\* from; the structure-file frame index of a row identifies that record
TotalsAsLogged(T, logged) ==
    \A i \in 1..Len(T.rows) :
        <<T.rows[i]["rmf_frame_index"], T.rows[i]["MC_frame"], T.rows[i]["Total_score"]>>
            \in logged

\* C4: in every score table (the one read_stats_detailed returns, the same table
\* after the satisfaction and half columns are added, the stored trimmed table,
\* the labelled combined table) every row's Total_score is the total score logged
\* in the record the row was parsed from.
C4_TotalScoreAsLogged ==
    TableBuilt =>
        LET logged == Logged(<<"rmf_frame_index", "MonteCarlo_Nframe", "Total_Score">>)
        IN  /\ TotalsAsLogged(S_tot_scores, logged)
            /\ \A d \in DOMAIN S_all : TotalsAsLogged(S_all[d], logged)
            /\ TotalsAsLogged(S_comb_all, logged)

\* a labelled combined table of two rows with every sum column, in which the
\* logged total differs from the sum of the restraint columns
C4_Witness ==
    /\ parse_pc = "clustered"
    /\ Len(S_comb_all.rows) = 2
    /\ {"EV_sum", "CR_sum", "XLs_sum", "XLs_satif", "half", "cluster"}
          \subseteq Range(S_comb_all.columns)
    /\ \A i \in 1..2 :
          S_comb_all.rows[i]["Total_score"] >
              S_comb_all.rows[i]["EV_sum"] + S_comb_all.rows[i]["CR_sum"]
                  + S_comb_all.rows[i]["XLs_sum"]

\* the excluded-volume columns of T for the header with two such fields
TwoEVColumns(T, logged) ==
    /\ Count(T.columns, "EV_A") = 1 /\ Count(T.columns, "EV_B") = 1
    /\ \A i \in 1..Len(T.rows) :
          <<T.rows[i]["rmf_frame_index"], T.rows[i]["EV_A"], T.rows[i]["EV_B"]>> \in logged
    /\ IF restraints.sum_Excluded_volume_restraint
       THEN /\ Count(T.columns, "EV_sum") = 1
            /\ \A i \in 1..Len(T.rows) :
                  T.rows[i]["EV_sum"] = T.rows[i]["EV_A"] + T.rows[i]["EV_B"]
       ELSE "EV_sum" \notin Range(T.columns)

\* C10: with a header of two ExcludedVolumeSphere fields and the excluded-volume
\* restraint analysed, every score table has the two fields as columns EV_A and
\* EV_B; with summation it has one column EV_sum, in every row the sum of the two;
\* without summation it has no column EV_sum.
C10_ExcludedVolumeSum ==
    TableBuilt /\ stat2_dict = StatHeader2EV /\ restraints.Excluded_volume_restraint =>
        LET logged == Logged(<<"rmf_frame_index", "ExcludedVolumeSphere_A",
                               "ExcludedVolumeSphere_B">>)
        IN  /\ TwoEVColumns(S_tot_scores, logged)
            /\ \A d \in DOMAIN S_all : TwoEVColumns(S_all[d], logged)
            /\ parse_pc = "clustered" => TwoEVColumns(S_comb_all, logged)

\* summation on: a row with excluded-volume scores 2 and 4 and EV_sum 6
C10_Witness ==
    /\ TableBuilt /\ stat2_dict = StatHeader2EV
    /\ restraints.Excluded_volume_restraint /\ restraints.sum_Excluded_volume_restraint
    /\ \E i \in 1..Len(S_tot_scores.rows) :
          /\ S_tot_scores.rows[i]["EV_A"] = 2 /\ S_tot_scores.rows[i]["EV_B"] = 4
          /\ S_tot_scores.rows[i]["EV_sum"] = 6

(***************************************************************************)
(* Properties of the combined tables                                        *)
(***************************************************************************)

\* int(traj.split('run_')[1]) of the traj column of a row
RowTrajNumber(row) == ParseFloat(Split(row["traj"], "run_")[2])

\* C11: hdbscan_clustering fails only when no trimmed table has a row; after it,
\* for every stride, the combined distance table has as many rows as the
\* combined score table, and row i of the one has the cluster label and the
\* frame index of row i of the other and comes from the same trajectory.
C11_LabelsAligned ==
    /\ parse_pc = "ValueError" => \A d \in DOMAIN S_all : S_all[d].rows = <<>>
    /\ parse_pc = "clustered" =>
          /\ Len(S_comb_dist.rows) = Len(S_comb_all.rows)
          /\ \A i \in 1..Len(S_comb_all.rows) :
                /\ S_comb_dist.rows[i]["cluster"] = S_comb_all.rows[i]["cluster"]
                /\ S_comb_dist.rows[i]["MC_frame"] = S_comb_all.rows[i]["MC_frame"]
                /\ S_comb_dist.rows[i][DistNames[1]] = RowTrajNumber(S_comb_all.rows[i])

\* three trajectories combined with stride 2: two rows of different trajectories
\* with different labels
C11_Witness ==
    /\ parse_pc = "clustered"
    /\ skip = 2
    /\ Cardinality(DOMAIN S_all) = 3
    /\ Len(S_comb_dist.rows) >= 2
    /\ S_comb_dist.rows[1]["cluster"] # S_comb_dist.rows[2]["cluster"]
    /\ S_comb_dist.rows[1][DistNames[1]] # S_comb_dist.rows[2][DistNames[1]]

\* C12 as stated: in the combined table the rows of trajectory i precede the
\* rows of trajectory j whenever i < j as integers.
C12_AsStated ==
    parse_pc = "clustered" =>
        \A i, j \in 1..Len(S_comb_all.rows) :
            i < j => RowTrajNumber(S_comb_all.rows[i]) <= RowTrajNumber(S_comb_all.rows[j])

(***************************************************************************)
(* Properties of the equilibration cutoff                                   *)
(***************************************************************************)

\* C15: when a trajectory is stored, every column of sel_entries has been given
\* to the detector and has an equilibration index, and the index of every
\* column the detector raised on is 0; a raise never ends the processing.
C15_DetectorFailureIsZero ==
    /\ eq_pc \in {"idle", "loop", "stored"}
    /\ \A i \in eq_raised : ts_eq[i] = 0
    /\ eq_pc = "stored" =>
          /\ Len(ts_eq) = Len(sel_entries)
          /\ Len(eq_given) = Len(sel_entries)

\* a stored trajectory of three columns: the detector raised on the first and
\* returned a positive index for a later one
C15_Witness ==
    /\ eq_pc = "stored"
    /\ Len(sel_entries) = 3
    /\ eq_raised = {1}
    /\ ts_eq[3] > 0
    /\ eq_stored # <<>>

\* the largest equilibration index of the columns, plus the warm-up offset
Cutoff == CHOOSE c \in {ts_eq[i] + 50 : i \in 1..Len(ts_eq)} :
              \A i \in 1..Len(ts_eq) : ts_eq[i] + 50 <= c

\* C16: the cutoff is the largest equilibration index plus 50, at least 50; the
\* stored table has exactly the rows at the positions from the cutoff on, in
\* their order, none when the table has no more rows than the cutoff; the
\* detector is given the rows from position 50 on and no other.
C16_CutoffAndStoredRows ==
    /\ \A k \in 1..Len(eq_given) :
          eq_given[k] = [i \in 1..(IF Len(eq_index) > 50 THEN Len(eq_index) - 50 ELSE 0) |->
                            eq_index[50 + i]]
    /\ eq_pc = "stored" =>
          /\ Cutoff >= 50
          /\ Len(eq_stored) = (IF Len(eq_index) > Cutoff THEN Len(eq_index) - Cutoff ELSE 0)
          /\ \A i \in 1..Len(eq_stored) : eq_stored[i] = eq_index[Cutoff + i]

\* a table of 52 rows whose cutoff is 51: the last row is stored
C16_Witness ==
    /\ eq_pc = "stored"
    /\ Len(eq_index) = 52
    /\ Cutoff = 51
    /\ eq_stored = <<51>>
    /\ Len(eq_given) >= 2

(***************************************************************************)
(* Properties of the converged sample count                                 *)
(***************************************************************************)

\* the criterion of line 976 holds on step s
StepHolds(s) ==
    /\ RH1[s][2] - RH1[s + 1][2] < RH1[s + 1][3]
    /\ RH2[s][2] - RH2[s + 1][2] < RH2[s + 1][2]

\* the steps that end four consecutive steps on which the criterion holds
FourthInARow == {s \in 4..(Len(RH1) - 1) : \A k \in (s - 3)..s : StepHolds(k)}

C26_AsStated ==
    conv_pc = "returned" =>
        \A s \in 1..(Len(RH1) - 1) :
            Hit(RH1, RH2, s) =>
                /\ RH1[s][2] - RH1[s + 1][2] < RH1[s + 1][3]
                /\ RH2[s][2] - RH2[s + 1][2] < RH2[s + 1][3]

(***************************************************************************)
(* Properties of the process pools                                          *)
(***************************************************************************)

RECURSIVE Flatten(_)
Flatten(qs) == IF qs = <<>> THEN <<>> ELSE Head(qs) \o Flatten(Tail(qs))

PoolSplit == pool_pc.at \notin {"idle", "split"}

\* C18: read_stat_files makes one slice for each of the nproc workers; the
\* slices, taken in the order of the workers, are consecutive pieces of the
\* list of directories that make up the whole list, so no directory is in two
\* slices and every directory is in one; a slice may be empty.
C18_SlicesPartition ==
    (PoolSplit /\ job = "read_stat_files") =>
        /\ Len(out_dirs_dict) = nproc
        /\ Flatten(out_dirs_dict) = items
        /\ \A k, l \in 1..nproc :
              k # l => Range(out_dirs_dict[k]) \cap Range(out_dirs_dict[l]) = {}
        /\ \A d \in Range(items) : \E k \in 1..nproc : d \in Range(out_dirs_dict[k])

\* four directories for three workers: two slices of two and an empty one
C18_Witness ==
    /\ PoolSplit /\ job = "read_stat_files"
    /\ nproc = 3
    /\ Len(items) = 4
    /\ Len(out_dirs_dict[1]) = 2 /\ Len(out_dirs_dict[2]) = 2
    /\ out_dirs_dict[3] = <<>>

\* C19: when read_stat_files has returned, and when do_extract_models writes
\* the scores, every worker process has exited; the scores written are all the
\* scores collected.
C19_JoinAll ==
    pool_pc.at \in {"returned", "saved"} =>
        /\ \A w \in 1..nproc : processes[w].state = "exited"
        /\ pool_pc.at = "saved" => saved = scores

\* read_stat_files has returned after three workers stored a table each
C19_Witness ==
    /\ pool_pc.at = "returned"
    /\ nproc = 3
    /\ \A w \in 1..nproc : processes[w].done >= 1
    /\ Cardinality(DOMAIN S_all) >= 3

\* C20 as stated: no key of a shared mapping is written by two workers.
C20_AsStated ==
    \A i, j \in 1..Len(writes) :
        (writes[i][1] = writes[j][1] /\ writes[i][2] = writes[j][2])
            => writes[i][3] = writes[j][3]

\* C27: after read_stat_files every row stored for a directory carries the
\* label A or the label B, the same on all the rows of the directory: A if the
\* directory is in dir_halfA of the object, B if it is in dir_halfB.
C27_StoredRowsCarryTheirHalf ==
    job = "read_stat_files" =>
        \A d \in DOMAIN S_all :
            /\ d \in Range(items)
            /\ \A i \in 1..Len(S_all[d].rows) :
                  LET half == S_all[d].rows[i]["half"]
                  IN  /\ half \in {"A", "B"}
                      /\ half = "A" <=> d \in Range(HalfA(items))
                      /\ half = "B" <=> d \in Range(HalfB(items))

\* four directories read by two workers: rows of half A stored for the first
\* and for the third directory in np.sort order, rows of half B for the other
\* two
C27_Witness ==
    /\ job = "read_stat_files" /\ pool_pc.at = "returned"
    /\ items = <<"a/", "b/", "run_1/", "run_2/">> /\ nproc = 2
    /\ DOMAIN S_all = Range(items)
    /\ Len(S_all["run_1/"].rows) = 2 /\ Len(S_all["run_2/"].rows) = 2
    /\ S_all["a/"].rows[1]["half"] = "A" /\ S_all["b/"].rows[1]["half"] = "B"
    /\ \A i \in 1..2 : S_all["run_1/"].rows[i]["half"] = "A" /\ S_all["run_2/"].rows[i]["half"] = "B"

\* C29: do_extract_models gives every row of gsms_info to one worker and to
\* one only; no row has two entries in self.scores at any time, and when the
\* workers are joined and the scores saved there is one entry for every row,
\* in an order that depends on the interleaving.
C29_OneEntryPerFrame ==
    job = "do_extract_models" =>
        /\ PoolSplit => (Len(out_dirs_dict) = nproc /\ Flatten(out_dirs_dict) = items)
        /\ \A i, j \in 1..Len(scores) : scores[i] = scores[j] => i = j
        /\ Range(scores) \subseteq Range(items)
        /\ pool_pc.at = "saved" =>
              /\ Range(scores) = Range(items)
              /\ \A w \in 1..nproc : processes[w].done = Len(out_dirs_dict[w])
              /\ saved = scores

\* three rows and two workers: the second worker appended the score of its
\* row before the first worker appended its two
C29_Witness ==
    /\ job = "do_extract_models" /\ pool_pc.at = "saved"
    /\ nproc = 2 /\ items = <<1, 2, 3>>
    /\ out_dirs_dict = << <<1, 2>>, <<3>> >>
    /\ saved = <<3, 1, 2>>

\* the directories on which a worker raised
FailedDirs ==
    {out_dirs_dict[w][processes[w].done + 1] :
        w \in {x \in 1..Len(processes) : processes[x].raised}}

\* C21 as stated: when read_stat_files has returned, every directory but the
\* ones a worker raised on has its entry in the results mapping.
C21_AsStated ==
    (pool_pc.at = "returned" /\ job = "read_stat_files") =>
        \A d \in Range(items) \ FailedDirs : d \in DOMAIN S_all

(***************************************************************************)
(* Properties of the restraint fields and the sum columns                   *)
(***************************************************************************)

\* The restraint types with summation: the flag of the type, its summation
\* flag, its sum column and its get_fields calls (indices of RestraintKinds).
SumTypes ==
    <<[flag |-> "Excluded_volume_restraint", sum |-> "sum_Excluded_volume_restraint",
       column |-> "EV_sum", kinds |-> {1}],
      [flag |-> "Connectivity_restraint", sum |-> "sum_Connectivity_restraint",
       column |-> "CR_sum", kinds |-> {2}],
      [flag |-> "XLs_restraint", sum |-> "sum_XLs_restraint",
       column |-> "XLs_sum", kinds |-> {3, 4}],
      [flag |-> "atomic_XLs_restraint", sum |-> "sum_atomic_XLs_restraint",
       column |-> "atomic_XLs_sum", kinds |-> {5}],
      [flag |-> "Binding_restraint", sum |-> "sum_Binding_restraint",
       column |-> "BR_sum", kinds |-> {11}],
      [flag |-> "Distance_restraint", sum |-> "sum_Distance_restraint",
       column |-> "DR_sum", kinds |-> {10}],
      [flag |-> "DOPE_restraint", sum |-> "sum_DOPE_restraint",
       column |-> "DOPE_sum", kinds |-> {12}],
      [flag |-> "MembraneExclusion_restraint", sum |-> "sum_MembraneExclusion_restraint",
       column |-> "MEX_sum", kinds |-> {13}],
      [flag |-> "MembraneSurfaceLocation_restraint",
       sum |-> "sum_MembraneSurfaceLocation_restraint",
       column |-> "MSL_sum", kinds |-> {14}]>>

\* the sum of the logged values of the fields of the get_fields calls in kinds
TypeTotal(kinds) ==
    SumOver([k \in UNION {Range(SchemaFields[i].fields) : i \in kinds} |-> SampleValue(k)])

\* C24 as stated: once the score table is built, every restraint type that is
\* enabled with its summation flag has its <type>_sum column, whose value is
\* the sum of the columns of that type and of no other, and a <type>_sum column
\* is there only if that type is enabled.
C24_AsStated ==
    schema_pc = "parsed" =>
        \A t \in 1..Len(SumTypes) :
            LET T == SumTypes[t]
            IN  /\ (opts[T.flag] /\ opts[T.sum]) =>
                      /\ T.column \in Range(score_table.columns)
                      /\ score_table.rows[1][T.column] = TypeTotal(T.kinds)
                /\ T.column \in Range(score_table.columns) => opts[T.flag]

\* C25 as stated: when get_restraint_fields has completed, the fields that
\* match the pattern of a restraint are among the fields it stored if and only
\* if the set_analyze_* operation of that restraint was called.
C25_AsStated ==
    schema_pc \in {"fields", "parsed"} =>
        \A i \in 1..Len(RestraintKinds) :
            opts[RestraintKinds[i].flag] <=>
                /\ SchemaFields[i].fields # <<>>
                /\ Range(SchemaFields[i].fields) \subseteq Range(schema.all_fields)

\* C30 as stated: on a log that has the fields of every restraint,
\* get_restraint_fields raises no exception, whatever set_analyze_* calls were
\* made before it.
C30_AsStated == schema_pc \notin {"NameError", "AttributeError"}

====
